---- MODULE Spec2Model ----
(***************************************************************************)
(* Model of the crdt-enc replica engine (Core in crdt-enc/src/lib.rs) and  *)
(* of the tokio blob store (crdt-enc-tokio/src/lib.rs) it runs against.    *)
(* The user CRDT is MVReg<u64, Uuid>, as in examples/test/src/main.rs.     *)
(*                                                                         *)
(* Every engine operation is split at its await points: a step of the      *)
(* model is the code between two awaits, or one call of the blob store.    *)
(***************************************************************************)
EXTENDS Integers, Sequences, FiniteSets, TLC

(***************************************************************************)
(* Bounds of the model.  A run is made in one of four modes, which differ  *)
(* in the calls the hosts make and in how many of them:                    *)
(*   "conc"     calls overlap; apply_ops, read_remote, compact             *)
(*   "seq"      one call at a time; also close and reopen                  *)
(*   "fail"     calls overlap; store_ops may fail                          *)
(*   "foreign"  calls overlap; other writers put state blobs on the remote *)
(*   "keys"     no engine calls: inserts into and merges of key registries *)
(***************************************************************************)
MaxActive == 2        \* engine calls in flight at the same time, over all replicas
MaxApply == 2         \* "conc": apply_ops calls over all replicas
MaxRead == 2          \* "conc": read_remote calls
MaxCompact == 2       \* "conc": compact calls
MaxCalls == 4         \* "conc": engine calls of all kinds
SeqMaxApply == 3      \* "seq": apply_ops calls
SeqMaxRead == 2       \* "seq": read_remote calls
SeqMaxCompact == 2    \* "seq": compact calls
SeqMaxReopen == 1     \* "seq": close and reopen of a replica
FailMaxApply == 2     \* "fail": apply_ops calls
FailMaxRead == 1      \* "fail": read_remote calls
FailMaxFail == 1      \* "fail": failures of store_ops or of the cipher
ForeignMaxApply == 1  \* "foreign": apply_ops calls
ForeignMaxRead == 2   \* "foreign": read_remote calls
ForeignMaxPut == 2    \* "foreign": state blobs put by other writers
MaxKeys == 3          \* "keys": key ids generated
MaxKeyOps == 5        \* "keys": inserts and merges made
MaxOpens == 3         \* "open": calls of open
MaxMetaReads == 1     \* "open": calls of read_remote_meta
MaxMetaWrites == 1    \* "open": calls of set_remote_meta_storage
MaxHostCalls == 3     \* "open": calls of all kinds
MetaMaxOpens == 2     \* "meta": calls of open
MetaMaxReads == 1     \* "meta": calls of read_remote_meta
MetaMaxWrites == 2    \* "meta": calls of set_remote_meta_storage
MetaMaxCalls == 4     \* "meta": calls of all kinds
EnvMaxApply == 3      \* "env": apply_ops calls
EnvMaxRead == 2       \* "env": read_remote calls
EnvMaxDrop == 1       \* "env": apply_ops calls dropped by the host
EnvMaxHold == 1       \* "env": op files held back by the remote
KeyedMaxApply == 2    \* "keyed": calls of apply_ops
KeyedMaxRead == 2     \* "keyed": calls of read_remote

Limit ==
    [ conc |-> [active |-> MaxActive, calls |-> MaxCalls,
                apply |-> MaxApply, read |-> MaxRead, compact |-> MaxCompact,
                fail |-> 0, foreign |-> 0, reopen |-> 0],
      seq |-> [active |-> 1, calls |-> SeqMaxApply + SeqMaxRead + SeqMaxCompact,
               apply |-> SeqMaxApply, read |-> SeqMaxRead, compact |-> SeqMaxCompact,
               fail |-> 0, foreign |-> 0, reopen |-> SeqMaxReopen],
      fail |-> [active |-> MaxActive, calls |-> FailMaxApply + FailMaxRead,
                apply |-> FailMaxApply, read |-> FailMaxRead, compact |-> 0,
                fail |-> FailMaxFail, foreign |-> 0, reopen |-> 0],
      foreign |-> [active |-> MaxActive, calls |-> ForeignMaxApply + ForeignMaxRead,
                   apply |-> ForeignMaxApply, read |-> ForeignMaxRead, compact |-> 0,
                   fail |-> 0, foreign |-> ForeignMaxPut, reopen |-> 0],
      env |-> [active |-> 1, calls |-> EnvMaxApply + EnvMaxRead,
               apply |-> EnvMaxApply, read |-> EnvMaxRead, compact |-> 0,
               fail |-> EnvMaxDrop, foreign |-> EnvMaxHold, reopen |-> 0],
      keyed |-> [active |-> 1, calls |-> KeyedMaxApply + KeyedMaxRead,
                 apply |-> KeyedMaxApply, read |-> KeyedMaxRead, compact |-> 0,
                 fail |-> 0, foreign |-> 0, reopen |-> 0] ]

\* The bounds on the calls of the host processes, per kind of run.
RaceMaxOpens == 2   \* bound, "race": opens of the one host process
RaceMaxWrites == 2  \* bound, "race": set_remote_meta_* calls
RaceMaxCalls == 4   \* bound, "race": calls in all

HostLimit ==
    [ open |-> [opens |-> MaxOpens, reads |-> MaxMetaReads,
                sets |-> MaxMetaWrites, calls |-> MaxHostCalls],
      meta |-> [opens |-> MetaMaxOpens, reads |-> MetaMaxReads,
                sets |-> MetaMaxWrites, calls |-> MetaMaxCalls],
      race |-> [opens |-> RaceMaxOpens, reads |-> 0,
                sets |-> RaceMaxWrites, calls |-> RaceMaxCalls] ]

Replicas == {"A", "B"}
\* "open": the host processes that open a Core, and the local storages
\* (directories) they open it on.
Procs == {"p1", "p2"}
Stores == {"s1", "s2"}
\* The actor ids of the vector clocks: those of the replicas, and that of a
\* third replica that takes part in the key registry only.
Actors == Replicas \cup {"C"}
Slots == {"t1", "t2"}

(***************************************************************************)
(* Versions (Uuids in the code) are small integers, in the order of the    *)
(* Uuids they stand for.                                                   *)
(***************************************************************************)
NilVersion == 0          \* Uuid::nil(), supported nowhere
MsgpackPrefix == 1       \* the first 16 bytes of rmp_serde::to_vec_named(&StateWrapper)
V1 == 2                  \* CURRENT_DATA_VERSION of the example host
CURRENT_VERSION == 3
SUPPORTED_VERSIONS == <<CURRENT_VERSION>>

\* The (current_data_version, supported_data_versions) pairs a host opens with;
\* supported_data_versions as the user supplies it.
Configs ==
    { [cur |-> V1, sup |-> <<V1>>],
      [cur |-> CURRENT_VERSION, sup |-> <<CURRENT_VERSION, MsgpackPrefix>>] }

(***************************************************************************)
(* slice::sort_unstable and slice::binary_search.                          *)
(***************************************************************************)
RECURSIVE InsertSorted(_, _)
InsertSorted(x, s) ==
    IF s = <<>> THEN <<x>>
    ELSE IF x <= Head(s) THEN <<x>> \o s
    ELSE <<Head(s)>> \o InsertSorted(x, Tail(s))

\* The list left in the order the user supplied it.
SortKeepOrder(s) == s

RECURSIVE SortUnstable(_)
SortUnstable(s) ==
    IF s = <<>> THEN <<>> ELSE InsertSorted(Head(s), SortUnstable(Tail(s)))

RECURSIVE BinarySearch(_, _, _, _)
BinarySearch(s, x, lo, hi) ==
    IF lo >= hi THEN FALSE
    ELSE LET mid == lo + ((hi - lo) \div 2)
         IN IF s[mid + 1] = x THEN TRUE
            ELSE IF s[mid + 1] < x THEN BinarySearch(s, x, mid + 1, hi)
            ELSE BinarySearch(s, x, lo, mid)

\* VersionBytesRef::ensure_versions: TRUE for Ok(()).
EnsureVersions(versions, version) ==
    BinarySearch(versions, version, 0, Len(versions))

(***************************************************************************)
(* utils/version_bytes.rs: the framing of a blob, 16 version bytes and     *)
(* then the payload, and the Buf that yields it.  Here a Uuid is its 16    *)
(* bytes (Uuid::from_bytes, Uuid::as_bytes), a slice is a sequence.        *)
(***************************************************************************)
VERSION_LEN == 16

\* The Uuid of tests/version_box_buf.rs.
UUID == <<216, 210, 207, 80, 165, 198, 67, 59, 152, 230, 140, 38, 143, 216, 79, 160>>

\* Uuid::from_u128 for the small numbers the versions of this module are:
\* big endian, the low four bytes last.
from_u128(n) ==
    [i \in 1..VERSION_LEN |->
        IF VERSION_LEN - i > 3 THEN 0 ELSE (n \div (256 ^ (VERSION_LEN - i))) % 256]

\* &s[from..] of a slice, from counted from 0.
SliceFrom(s, from) == SubSeq(s, from + 1, Len(s))

\* VersionBytesBuf::new
VersionBytesBuf(version, content) ==
    [pos |-> 0, version |-> version, content |-> content]

\* Buf::remaining
remaining(buf) == VERSION_LEN + Len(buf.content) - buf.pos

\* Buf::chunk, with the payload yielded whole wherever the position is.
chunk_whole_content(buf) ==
    IF buf.pos < VERSION_LEN
    THEN SliceFrom(buf.version, buf.pos)
    ELSE LET pos == buf.pos - VERSION_LEN
         IN IF Len(buf.content) <= pos THEN <<>> ELSE buf.content

\* Buf::chunk
chunk(buf) ==
    IF buf.pos < VERSION_LEN
    THEN SliceFrom(buf.version, buf.pos)
    ELSE LET pos == buf.pos - VERSION_LEN
         IN IF Len(buf.content) <= pos THEN <<>> ELSE SliceFrom(buf.content, pos)

\* Buf::advance without its assert!.
advance_unchecked(buf, count) ==
    [panic |-> FALSE, buf |-> [buf EXCEPT !.pos = @ + count]]

\* Buf::advance: the assert! panics and leaves the buffer as it was.
advance(buf, count) ==
    IF ~(count <= remaining(buf))
    THEN [panic |-> TRUE, buf |-> buf]
    ELSE [panic |-> FALSE, buf |-> [buf EXCEPT !.pos = @ + count]]

\* Buf::chunks_vectored, with the second slot given the payload only when
\* the payload is not empty.
chunks_vectored_skip_empty(buf, dst) ==
    IF Len(dst) = 0 THEN [n |-> 0, dst |-> dst]
    ELSE IF buf.pos < VERSION_LEN
    THEN LET d0 == [dst EXCEPT ![1] = SliceFrom(buf.version, buf.pos)]
         IN IF Len(dst) = 1 \/ buf.content = <<>> THEN [n |-> 1, dst |-> d0]
            ELSE [n |-> 2, dst |-> [d0 EXCEPT ![2] = buf.content]]
    ELSE LET pos == buf.pos - VERSION_LEN
         IN IF Len(buf.content) = pos THEN [n |-> 0, dst |-> dst]
            ELSE [n |-> 1, dst |-> [dst EXCEPT ![1] = SliceFrom(buf.content, pos)]]

\* Buf::chunks_vectored: the number of slots filled, and dst afterwards.
chunks_vectored(buf, dst) ==
    IF Len(dst) = 0 THEN [n |-> 0, dst |-> dst]
    ELSE IF buf.pos < VERSION_LEN
    THEN LET d0 == [dst EXCEPT ![1] = SliceFrom(buf.version, buf.pos)]
         IN IF Len(dst) = 1 THEN [n |-> 1, dst |-> d0]
            ELSE [n |-> 2, dst |-> [d0 EXCEPT ![2] = buf.content]]
    ELSE LET pos == buf.pos - VERSION_LEN
         IN IF Len(buf.content) = pos THEN [n |-> 0, dst |-> dst]
            ELSE [n |-> 1, dst |-> [dst EXCEPT ![1] = SliceFrom(buf.content, pos)]]

\* VersionBytesRef::deserialize, with a slice of the version alone refused.
deserialize_strict(slice) ==
    IF Len(slice) <= VERSION_LEN
    THEN [ok |-> FALSE, err |-> "InvalidLength"]
    ELSE [ok |-> TRUE,
          version |-> SubSeq(slice, 1, VERSION_LEN),
          content |-> SliceFrom(slice, VERSION_LEN)]

\* VersionBytesRef::deserialize
deserialize(slice) ==
    IF Len(slice) < VERSION_LEN
    THEN [ok |-> FALSE, err |-> "InvalidLength"]
    ELSE [ok |-> TRUE,
          version |-> SubSeq(slice, 1, VERSION_LEN),
          content |-> SliceFrom(slice, VERSION_LEN)]

\* The while loop of VersionBytesRef::serialize.
RECURSIVE SerializeLoop(_, _)
SerializeLoop(buf, vec) ==
    IF remaining(buf) > 0
    THEN LET c == chunk(buf)
         IN SerializeLoop(advance(buf, Len(c)).buf, vec \o c)
    ELSE vec

\* VersionBytesRef::serialize
serialize(version, content) ==
    SerializeLoop(VersionBytesBuf(version, content), <<>>)

(***************************************************************************)
(* The inputs of the calls that are pure functions.                        *)
(***************************************************************************)
MaxLen == 3       \* bound: bytes of payload
MaxSlots == 3     \* bound: slots of a dst handed to chunks_vectored
MaxOver == 1      \* bound: how far past remaining() an advance may ask
MaxVersions == 3  \* bound: supported versions a user supplies
MaxTasks == 3     \* bound: futures handed to TaskMgr::spawn
MaxHandles == 2   \* bound: TaskMgr handles alive at a time
MaxPending == 1   \* bound: polls of a task that return Pending

PayloadBytes == {1, 2}

SeqsUpTo(S, n) == UNION {[1..k -> S] : k \in 0..n}

BufVersions == {UUID, from_u128(CURRENT_VERSION)}

VersionIds == {NilVersion, MsgpackPrefix, V1, CURRENT_VERSION}

NoCall == [op |-> "none"]

BufInputs ==
    { [op |-> "new", arg |-> <<>>, res |-> <<>>,
       buf |-> VersionBytesBuf(v, b), consumed |-> 0, panicked |-> FALSE] :
      v \in BufVersions, b \in SeqsUpTo(PayloadBytes, MaxLen) }

VersionInputs ==
    { [op |-> "new", arg |-> NilVersion, res |-> FALSE, user |-> l, versions |-> l] :
      l \in SeqsUpTo(VersionIds, MaxVersions) }

(***************************************************************************)
(* VClock<Uuid> and MVReg<u64, Uuid> of the crdts crate.  A clock is a     *)
(* function from actors to counters, 0 for an absent actor.                *)
(***************************************************************************)
ZeroClock == [a \in Actors |-> 0]

ClockLeq(c, d) == \A a \in Actors : c[a] <= d[a]

ClockLt(c, d) == ClockLeq(c, d) /\ c # d

SetMax(S) == CHOOSE x \in S : \A y \in S : y <= x

\* VClock::merge
ClockMerge(c, d) == [a \in Actors |-> IF c[a] >= d[a] THEN c[a] ELSE d[a]]

\* VClock::inc followed by VClock::apply
ClockInc(c, actor) == [c EXCEPT ![actor] = c[actor] + 1]

\* MVReg::read_ctx().add_clock: the merge of the clocks of all values
MVRegClock(reg) ==
    [a \in Actors |-> SetMax({0} \cup {v.clock[a] : v \in reg})]

\* the values a read of the register returns
MVRegVals(reg) == {v.val : v \in reg}

\* MVReg::write(val, read_ctx.derive_add_ctx(actor))
MVRegWrite(reg, actor, val) ==
    [clock |-> ClockInc(MVRegClock(reg), actor), val |-> val]

\* MVReg::apply (CmRDT)
MVRegApply(reg, op) ==
    IF op.clock = ZeroClock THEN reg
    ELSE LET kept == {v \in reg : ~ClockLeq(v.clock, op.clock)}
         IN IF \E v \in kept : ClockLt(op.clock, v.clock)
            THEN kept
            ELSE kept \cup {op}

\* A merge that takes of the other register only the values that replace
\* one of its own.
MVRegMergePreferSelf(reg, other) ==
    LET mine == {v \in reg : ~\E w \in other : ClockLt(v.clock, w.clock)}
        theirs == {w \in other : \E v \in reg : ClockLt(v.clock, w.clock)}
    IN IF reg = {} THEN other ELSE mine \cup theirs

\* MVReg::merge (CvRDT)
MVRegMerge(reg, other) ==
    LET mine == {v \in reg : ~\E w \in other : ClockLt(v.clock, w.clock)}
        theirs == {w \in other :
                      /\ ~\E v \in mine : ClockLt(w.clock, v.clock)
                      /\ \A v \in mine : w.clock # v.clock}
    IN mine \cup theirs

(***************************************************************************)
(* Orswot<Key, Uuid> of the crdts crate, as Keys uses it: members are only *)
(* added.  Key compares and hashes by its id (key_cryptor.rs 105-135), so  *)
(* a member is a key id.  An entry is a member with the clock of its adds. *)
(***************************************************************************)
EmptyOrswot == [clock |-> ZeroClock, entries |-> {}]

\* Orswot::read().val
OrswotVals(o) == {e.m : e \in o.entries}

\* VClock::reset_remove / clone_without: forget the dots `base` has seen
ClockWithout(c, base) == [a \in Actors |-> IF c[a] > base[a] THEN c[a] ELSE 0]

\* VClock::intersection: the dots both clocks hold with the same counter
ClockIntersection(c, d) == [a \in Actors |-> IF c[a] = d[a] THEN c[a] ELSE 0]

\* An add that advances the clock of the set and leaves the member out.
OrswotAddClockOnly(o, actor, m) ==
    [clock |-> [o.clock EXCEPT ![actor] = o.clock[actor] + 1],
     entries |-> o.entries]

\* Orswot::add(member, read_ctx().derive_add_ctx(actor)), then Orswot::apply
OrswotAdd(o, actor, m) ==
    LET counter == o.clock[actor] + 1
        old == {e \in o.entries : e.m = m}
        member_vclock == IF old = {} THEN ZeroClock ELSE (CHOOSE e \in old : TRUE).clock
    IN [clock |-> [o.clock EXCEPT ![actor] = counter],
        entries |-> (o.entries \ old)
                      \cup {[m |-> m, clock |-> [member_vclock EXCEPT ![actor] = counter]]}]

\* A merge that takes every member the other set lacks for removed there.
OrswotMergeDropMissing(o, other) ==
    [clock |-> ClockMerge(o.clock, other.clock),
     entries |-> {e \in o.entries : e.m \in OrswotVals(other)}
                   \cup {e \in other.entries : e.m \notin OrswotVals(o)}]

\* Orswot::merge (CvRDT), without deferred removals
OrswotMerge(o, other) ==
    LET kept == {e \in o.entries :
                    \/ e.m \in OrswotVals(other)
                    \/ ~ClockLeq(e.clock, other.clock)}
        mine == {IF e.m \in OrswotVals(other) THEN e
                 ELSE [m |-> e.m, clock |-> ClockWithout(e.clock, other.clock)] :
                    e \in kept}
        Common(e, ours) ==
            ClockMerge(ClockMerge(ClockIntersection(e.clock, ours.clock),
                                  ClockWithout(e.clock, o.clock)),
                       ClockWithout(ours.clock, other.clock))
        both == {[m |-> e.m,
                  clock |-> Common(e, CHOOSE x \in mine : x.m = e.m)] :
                    e \in {x \in other.entries : x.m \in {y.m : y \in mine}}}
        theirs == {[m |-> e.m, clock |-> ClockWithout(e.clock, o.clock)] :
                    e \in {x \in other.entries :
                               /\ x.m \notin {y.m : y \in mine}
                               /\ ~ClockLeq(x.clock, o.clock)}}
    IN [clock |-> ClockMerge(o.clock, other.clock),
        entries |-> {e \in mine : e.m \notin OrswotVals(other)}
                      \cup {e \in both : e.clock # ZeroClock}
                      \cup theirs]

(***************************************************************************)
(* Keys, the key registry (key_cryptor.rs 34-79).  NoKey is Option::None.  *)
(***************************************************************************)
NoKey == 0

EmptyKeys == [latest_key_id |-> {}, keys |-> EmptyOrswot]

\* Keys::merge, lines 47-50
KeysMerge(x, other) ==
    [latest_key_id |-> MVRegMerge(x.latest_key_id, other.latest_key_id),
     keys |-> OrswotMerge(x.keys, other.keys)]

\* latest_key with max() for min().
latest_key_max(x) ==
    LET found == MVRegVals(x.latest_key_id) \cap OrswotVals(x.keys)
    IN IF found = {} THEN NoKey ELSE CHOOSE k \in found : \A j \in found : j <= k

\* Keys::latest_key, lines 58-66: the smallest of the keys of the set whose
\* id the register holds
latest_key(x) ==
    LET found == MVRegVals(x.latest_key_id) \cap OrswotVals(x.keys)
    IN IF found = {} THEN NoKey ELSE CHOOSE k \in found : \A j \in found : k <= j

\* insert_latest_key adding its write to the register without replacing the
\* values the write has seen.
insert_latest_key_keep_old(x, actor, new_key) ==
    [latest_key_id |-> x.latest_key_id
                         \cup {MVRegWrite(x.latest_key_id, actor, new_key)},
     keys |-> OrswotAdd(x.keys, actor, new_key)]

\* Keys::insert_latest_key, lines 68-78
insert_latest_key(x, actor, new_key) ==
    [latest_key_id |-> MVRegApply(x.latest_key_id,
                                  MVRegWrite(x.latest_key_id, actor, new_key)),
     keys |-> OrswotAdd(x.keys, actor, new_key)]

(***************************************************************************)
(* State.                                                                  *)
(***************************************************************************)
VARIABLES
    mode,        \* "conc": calls overlap freely; "seq": one call at a time
    cfg,         \* the OpenOptions all replicas were opened with
    opFiles,     \* <remote>/ops/<actor>/<version>: set of op blobs
    stateFiles,  \* <remote>/states/<name>: set of state blobs
    data,        \* data[r]: CoreMutData of replica r
    tasks,       \* tasks[r][s]: the engine call running in slot s of replica r
    lock,        \* lock[r]: apply_ops_lock of replica r is held
    acked,       \* history: the op blobs whose apply_ops returned Ok
    last,        \* history: the call that returned last, and its result
    cnt,         \* calls made so far, by kind (bounds the model)
    regs,        \* "keys": regs[a]: the key registry (Keys) held by actor a
    khist        \* "keys" history: the last registry operation, the key each
                 \* actor inserted last, the key ids in use, the operations made

keyVars == <<regs, khist>>

VARIABLES
    localMeta,   \* "open": localMeta[st]: <local>/meta-data.msgpack of storage st
    metaFiles,   \* "open": <remote>/meta/<name>: set of remote meta blobs
    host,        \* "open": host[p]: the Core of host process p and its open call
    ohist        \* "open" history: results, writes of the local metas, ids in use

metaVars == <<localMeta, metaFiles, host, ohist>>

VARIABLE
    held         \* "env": op files the remote does not show for the time being

VARIABLES
    pure,        \* "bytes", "versions": the value a pure function is called on,
                 \* the call made last and its result
    calls,       \* "race": calls[s]: the set_remote_meta_* call running in slot s
                 \* of the Core of host process p1
    exec         \* "task": one TaskMgrExecutor, its channel and the TaskMgr
                 \* handles to it

auxVars == <<pure, calls, exec>>

engineVars == <<mode, cfg, opFiles, stateFiles, data, tasks, lock, acked, last, cnt,
                held>>

vars == <<mode, cfg, opFiles, stateFiles, data, tasks, lock, acked, last, cnt,
          regs, khist, localMeta, metaFiles, host, ohist, held, pure, calls, exec>>

Idle == [pc |-> "idle"]

\* The call `kind` in slot s of replica r returns res to the host.  `info` is
\* history: the version an apply_ops reserved, the number of state blobs a
\* read_remote_states had loaded and checked without error.
Return(r, s, kind, res, info) ==
    /\ tasks' = [tasks EXCEPT ![r][s] = Idle]
    /\ last' = [r |-> r, kind |-> kind, res |-> res, info |-> info]

\* Core::open, lines 230-240: the empty replica record.  `key` is the id of
\* Keys::latest_key().  History: `folded`, the op dots folded into `state`, and
\* `seen`, the op blobs that were acknowledged before a read_remote that has
\* returned Ok was called, and `opens`, how often the replica was opened.
EmptyData(key, opens) ==
    [ next_op_versions |-> ZeroClock,
      state |-> {},
      read_states |-> {},
      key |-> key,
      folded |-> {},
      seen |-> {},
      opens |-> opens ]

\* Option::None of load_local_meta: the storage holds no local meta.
NoLocalMeta == [version |-> NilVersion, actor |-> "none"]

\* RemoteMeta::default(), lines 742-747
EmptyRemoteMeta == [storage |-> {}, cryptor |-> {}, key_cryptor |-> {}]

\* RemoteMeta::merge, lines 756-760
RemoteMetaMerge(m, other) ==
    [storage |-> MVRegMerge(m.storage, other.storage),
     cryptor |-> MVRegMerge(m.cryptor, other.cryptor),
     key_cryptor |-> MVRegMerge(m.key_cryptor, other.key_cryptor)]

\* Core::open, lines 230-259: the record of a Core just built (CoreMutData
\* without the state wrapper) and the register of its KeyHandler
\* (crdt-enc-gpgme lib.rs 26-31).  `pc` is the position of the call in
\* flight, `call` the call it belongs to, `tmp` what it carries over an await.
\* History: `drained`, the names the last store_remote_meta took out of
\* read_remote_metas.
\* No set_remote_meta call was made on the capabilities.
NoNotice == [called |-> FALSE, some |-> FALSE, meta |-> EmptyRemoteMeta]

\* History fields: `late` tells that an open had completed on the remote when
\* this open was called, `notified` what the last read_remote_meta_ handed to
\* the capabilities.
NewCore(pc, st, create) ==
    [ pc |-> pc,
      late |-> FALSE,
      notified |-> NoNotice,
      call |-> "open",
      store |-> st,
      create |-> create,
      local_meta |-> "none",
      remote_meta |-> EmptyRemoteMeta,
      keys |-> EmptyKeys,
      read_remote_metas |-> {},
      handler |-> {},
      drained |-> {},
      tmp |-> {} ]

ClosedCore == NewCore("closed", "s1", FALSE)

\* Core::open, lines 306-319, run by the replicas at the same time against an
\* empty remote: each finds no latest key after read_remote_meta_, generates
\* a key (A the key 1, B the key 2) and inserts it into its registry.
InitialKeys(a) ==
    IF mode = "keyed" /\ a \in Replicas
    THEN insert_latest_key(EmptyKeys, a, IF a = "A" THEN 1 ELSE 2)
    ELSE EmptyKeys

\* The latest key of a replica when the model starts: in "keyed" the key it
\* inserted; elsewhere the one key all replicas share.
InitialKey(r) == IF mode = "keyed" THEN latest_key(InitialKeys(r)) ELSE "k1"

\* TaskMgr::new(), task.rs lines 117-127: an empty FuturesUnordered, an
\* empty channel and the one TaskMgr handle that holds its sender.  The
\* executor is polled first when it is awaited.  `spawned` and `done` are
\* history: the tasks spawn returned Ok for and the tasks polled to
\* completion.
NewTaskMgr ==
    [ futs |-> {},
      rx |-> <<>>,
      senders |-> 1,
      terminated |-> FALSE,
      out |-> "pending",
      woken |-> TRUE,
      dropped |-> FALSE,
      spawned |-> {},
      done |-> {} ]

PureInputs ==
    CASE mode = "bytes" -> BufInputs
      [] mode = "versions" -> VersionInputs
      [] OTHER -> {NoCall}

InitEngine ==
    /\ cfg \in Configs
    /\ opFiles = {}
    /\ stateFiles = {}
    /\ data = [r \in Replicas |-> EmptyData(InitialKey(r), 1)]
    /\ tasks = [r \in Replicas |-> [s \in Slots |-> Idle]]
    /\ lock = [r \in Replicas |-> FALSE]
    /\ acked = {}
    /\ last = [r |-> "A", kind |-> "none", res |-> "none", info |-> 0]
    /\ cnt = [apply |-> 0, read |-> 0, compact |-> 0, fail |-> 0,
              foreign |-> 0, reopen |-> 0]
    /\ regs = [a \in Actors |-> InitialKeys(a)]
    /\ khist = [op |-> [kind |-> "none", x |-> "A", y |-> "A", k |-> NoKey],
                ins |-> [a \in Actors |-> NoKey],
                used |-> {},
                n |-> 0]
    /\ localMeta = [st \in Stores |-> NoLocalMeta]
    /\ held = {}
    /\ metaFiles = {}
    /\ host = [p \in Procs |-> ClosedCore]
    /\ ohist = [stores |-> [st \in Stores |-> 0],
                reported |-> [st \in Stores |-> {}],
                actors |-> {},
                keys |-> {},
                opens |-> 0,
                reads |-> 0,
                sets |-> 0,
                disturbed |-> {},
                removed |-> {}]
    /\ pure \in PureInputs
    /\ calls = [s \in Slots |-> Idle]
    /\ exec = NewTaskMgr

Init == mode = "conc" /\ InitEngine

InitSeq == mode = "seq" /\ InitEngine

InitFail == mode = "fail" /\ InitEngine

InitForeign == mode = "foreign" /\ InitEngine

InitKeys == mode = "keys" /\ InitEngine

InitOpen == mode = "open" /\ InitEngine

InitEnv == mode = "env" /\ InitEngine

InitMeta == mode = "meta" /\ InitEngine

InitBytes == mode = "bytes" /\ InitEngine

InitVersions == mode = "versions" /\ InitEngine

InitRace == mode = "race" /\ InitEngine

InitKeyed == mode = "keyed" /\ InitEngine

InitTask == mode = "task" /\ InitEngine

supported_data_versions == SortUnstable(cfg.sup)

\* The call in slot s of replica r goes on as t.
SetTask(r, s, t) ==
    /\ tasks' = [tasks EXCEPT ![r][s] = t]
    /\ UNCHANGED last

AllIdle == \A r \in Replicas, s \in Slots : tasks[r][s].pc = "idle"

Active == {x \in Replicas \X Slots : tasks[x[1]][x[2]].pc # "idle"}

\* A host may start a call in slot s of replica r.  The slots of a replica
\* are interchangeable: the second is used while the first is busy.
CanCall(r, s) ==
    /\ tasks[r][s].pc = "idle"
    /\ s = "t2" => tasks[r]["t1"].pc # "idle"
    /\ Cardinality(Active) < Limit[mode].active
    /\ cnt.apply + cnt.read + cnt.compact < Limit[mode].calls

(***************************************************************************)
(* Core::apply_ops                                                         *)
(***************************************************************************)
\* The host builds a write op from the state it sees (main.rs 47-52) and calls
\* apply_ops, which queues on apply_ops_lock.  The n-th write of a run writes
\* the value n.
NextVal == cnt.apply + 1

ApplyCall(r, s, val) ==
    /\ CanCall(r, s)
    /\ cnt.apply < Limit[mode].apply
    /\ cnt' = [cnt EXCEPT !.apply = @ + 1]
    /\ SetTask(r, s, [pc |-> "ap_lock", op |-> MVRegWrite(data[r].state, r, val)])
    /\ UNCHANGED <<keyVars, metaVars, auxVars, held, mode, cfg, opFiles, stateFiles, data, lock, acked>>

\* lines 671-682: take the lock, frame the clear text, snapshot the latest key,
\* start encrypting.
ApplyLock(r, s) ==
    /\ tasks[r][s].pc = "ap_lock"
    /\ ~lock[r]
    /\ lock' = [lock EXCEPT ![r] = TRUE]
    /\ SetTask(r, s, [pc |-> "ap_enc", op |-> tasks[r][s].op, key |-> data[r].key])
    /\ UNCHANGED <<keyVars, metaVars, auxVars, held, mode, cfg, opFiles, stateFiles, data, acked, cnt>>

\* lines 678-682: Cryptor::encrypt returns Err and apply_ops unwraps it.  The
\* call does not return: it panics; unwinding drops the lock guard.
ApplyEncryptFail(r, s) ==
    /\ tasks[r][s].pc = "ap_enc"
    /\ cnt.fail < Limit[mode].fail
    /\ cnt' = [cnt EXCEPT !.fail = @ + 1]
    /\ Return(r, s, "apply", "panic", 0)
    /\ lock' = [lock EXCEPT ![r] = FALSE]
    /\ UNCHANGED <<keyVars, metaVars, auxVars, held, mode, cfg, opFiles, stateFiles, data, acked>>

\* apply_ops reserving one version past the actor's next one.
ApplyReserveSkipVersion(r, s) ==
    /\ tasks[r][s].pc = "ap_enc"
    /\ SetTask(r, s, [pc |-> "ap_store",
                      blob |-> [ actor |-> r,
                                 version |-> data[r].next_op_versions[r] + 1,
                                 outer |-> CURRENT_VERSION,
                                 inner |-> cfg.cur,
                                 framed |-> TRUE,
                                 key |-> tasks[r][s].key,
                                 op |-> tasks[r][s].op ]])
    /\ UNCHANGED <<keyVars, metaVars, auxVars, held, mode, cfg, opFiles, stateFiles, data, lock, acked, cnt>>

\* apply_ops recording the reserved version before store_ops has succeeded.
ApplyReserveEager(r, s) ==
    /\ tasks[r][s].pc = "ap_enc"
    /\ data' = [data EXCEPT ![r].next_op_versions = ClockInc(@, r)]
    /\ SetTask(r, s, [pc |-> "ap_store",
                      blob |-> [ actor |-> r,
                                 version |-> data[r].next_op_versions[r],
                                 outer |-> CURRENT_VERSION,
                                 inner |-> cfg.cur,
                                 framed |-> TRUE,
                                 key |-> tasks[r][s].key,
                                 op |-> tasks[r][s].op ]])
    /\ UNCHANGED <<keyVars, metaVars, auxVars, held, mode, cfg, opFiles, stateFiles, lock, acked, cnt>>

\* lines 684-703: frame the cipher text, reserve (actor, version), call
\* store_ops.  The replica record is read, not written.
ApplyReserve(r, s) ==
    /\ tasks[r][s].pc = "ap_enc"
    /\ SetTask(r, s, [pc |-> "ap_store",
                      blob |-> [ actor |-> r,
                                 version |-> data[r].next_op_versions[r],
                                 outer |-> CURRENT_VERSION,
                                 inner |-> cfg.cur,
                                 framed |-> TRUE,
                                 key |-> tasks[r][s].key,
                                 op |-> tasks[r][s].op ]])
    /\ UNCHANGED <<keyVars, metaVars, auxVars, held, mode, cfg, opFiles, stateFiles, data, lock, acked, cnt>>

OpFileExists(actor, version) ==
    \E b \in opFiles : b.actor = actor /\ b.version = version

OpFile(actor, version) ==
    CHOOSE b \in opFiles : b.actor = actor /\ b.version = version

\* A store_ops that opens the file with create and truncate, as write_file
\* does.
ApplyStoreOverwrite(r, s) ==
    /\ tasks[r][s].pc = "ap_store"
    /\ LET blob == tasks[r][s].blob
       IN /\ opFiles' = {b \in opFiles : b.actor # blob.actor \/ b.version # blob.version}
                           \cup {blob}
          /\ SetTask(r, s, [pc |-> "ap_commit", blob |-> blob])
          /\ UNCHANGED lock
    /\ UNCHANGED <<keyVars, metaVars, auxVars, held, mode, cfg, stateFiles, data, acked, cnt>>

\* Storage::store_ops: create_new refuses an existing file.
ApplyStore(r, s) ==
    /\ tasks[r][s].pc = "ap_store"
    /\ LET blob == tasks[r][s].blob
       IN IF OpFileExists(blob.actor, blob.version)
          THEN /\ Return(r, s, "apply", "err_exists", blob.version)
               /\ lock' = [lock EXCEPT ![r] = FALSE]
               /\ UNCHANGED opFiles
          ELSE /\ opFiles' = opFiles \cup {blob}
               /\ SetTask(r, s, [pc |-> "ap_commit", blob |-> blob])
               /\ UNCHANGED lock
    /\ UNCHANGED <<keyVars, metaVars, auxVars, held, mode, cfg, stateFiles, data, acked, cnt>>

\* Storage::store_ops fails on an I/O error and leaves no file.
ApplyStoreFail(r, s) ==
    /\ tasks[r][s].pc = "ap_store"
    /\ cnt.fail < Limit[mode].fail
    /\ cnt' = [cnt EXCEPT !.fail = @ + 1]
    /\ Return(r, s, "apply", "err_io", tasks[r][s].blob.version)
    /\ lock' = [lock EXCEPT ![r] = FALSE]
    /\ UNCHANGED <<keyVars, metaVars, auxVars, held, mode, cfg, opFiles, stateFiles, data, acked>>

\* A commit that applies the ops and leaves the actor's counter as it is.
CommitOpsNoIncrement(d, blob) ==
    [d EXCEPT !.state = MVRegApply(@, blob.op),
              !.folded = @ \cup {<<blob.actor, blob.version>>}]

\* lines 533-538 and 706-711: apply the ops of one blob and increment the
\* actor's counter.
CommitOps(d, blob) ==
    [d EXCEPT !.state = MVRegApply(@, blob.op),
              !.next_op_versions = ClockInc(@, blob.actor),
              !.folded = @ \cup {<<blob.actor, blob.version>>}]

\* lines 705-718: commit, drop the lock, return Ok.
ApplyCommit(r, s) ==
    /\ tasks[r][s].pc = "ap_commit"
    /\ data' = [data EXCEPT ![r] = CommitOps(@, tasks[r][s].blob)]
    /\ lock' = [lock EXCEPT ![r] = FALSE]
    /\ acked' = acked \cup {tasks[r][s].blob}
    /\ Return(r, s, "apply", "ok", tasks[r][s].blob.version)
    /\ UNCHANGED <<keyVars, metaVars, auxVars, held, mode, cfg, opFiles, stateFiles, cnt>>

(***************************************************************************)
(* Core::read_remote = read_remote_states, then read_remote_ops.           *)
(* compact starts with a read_remote of its own (line 345): a task carries *)
(* in `c` the call it belongs to.                                          *)
(***************************************************************************)
\* The checks of lines 437-448 and 497-507 on one loaded blob: outer version,
\* decrypt with the snapshot key, version of the clear-text framing,
\* deserialize.  A blob is modelled by what these checks look at: `outer`, the
\* key it was encrypted with, `inner` = the first 16 bytes of the clear text,
\* `framed` = whether the bytes after them are the serialized value.
DecodeError(blob, key) ==
    IF ~EnsureVersions(SUPPORTED_VERSIONS, blob.outer) THEN "err_version"
    ELSE IF blob.key # key THEN "err_decrypt"
    ELSE IF ~EnsureVersions(supported_data_versions, blob.inner) THEN "err_version"
    ELSE IF ~blob.framed THEN "err_deserialize"
    ELSE "ok"

ReadCall(r, s) ==
    /\ CanCall(r, s)
    /\ cnt.read < Limit[mode].read
    /\ cnt' = [cnt EXCEPT !.read = @ + 1]
    /\ SetTask(r, s, [pc |-> "rs_list",
                      c |-> [kind |-> "read", id |-> 0, since |-> acked]])
    /\ UNCHANGED <<keyVars, metaVars, auxVars, held, mode, cfg, opFiles, stateFiles, data, lock, acked>>

\* lines 410-414: Storage::list_state_names
RsList(r, s) ==
    /\ tasks[r][s].pc = "rs_list"
    /\ SetTask(r, s, [pc |-> "rs_filter", c |-> tasks[r][s].c,
                      names |-> {b.name : b \in stateFiles}])
    /\ UNCHANGED <<keyVars, metaVars, auxVars, held, mode, cfg, opFiles, stateFiles, data, lock, acked, cnt>>

\* lines 416-425: names not yet read, and the latest key
RsFilter(r, s) ==
    /\ tasks[r][s].pc = "rs_filter"
    /\ SetTask(r, s, [pc |-> "rs_load", c |-> tasks[r][s].c,
                      to_read |-> tasks[r][s].names \ data[r].read_states,
                      key |-> data[r].key])
    /\ UNCHANGED <<keyVars, metaVars, auxVars, held, mode, cfg, opFiles, stateFiles, data, lock, acked, cnt>>

\* A read_remote_states that takes the user state and the counters of a
\* loaded wrapper in place of its own.
RECURSIVE MergeStatesReplace(_, _)
MergeStatesReplace(d, blobs) ==
    IF blobs = {} THEN d
    ELSE LET b == CHOOSE x \in blobs : TRUE
         IN MergeStatesReplace(
                [d EXCEPT !.state = b.state,
                          !.next_op_versions = b.next_op_versions,
                          !.read_states = @ \cup {b.name},
                          !.folded = b.folded],
                blobs \ {b})

\* lines 460-466: merge every loaded state wrapper into the replica record
RECURSIVE MergeStates(_, _)
MergeStates(d, blobs) ==
    IF blobs = {} THEN d
    ELSE LET b == CHOOSE x \in blobs : TRUE
         IN MergeStates(
                [d EXCEPT !.state = MVRegMerge(@, b.state),
                          !.next_op_versions = ClockMerge(@, b.next_op_versions),
                          !.read_states = @ \cup {b.name},
                          !.folded = @ \cup b.folded],
                blobs \ {b})

\* read_remote_states merging the blobs that passed the checks before it
\* returns the error of one that did not.
RsLoadMergeValid(r, s) ==
    /\ tasks[r][s].pc = "rs_load"
    /\ LET t == tasks[r][s]
           found == {b \in stateFiles : b.name \in t.to_read}
           valid == {b \in found : DecodeError(b, t.key) = "ok"}
           errors == {DecodeError(b, t.key) : b \in found} \ {"ok"}
       IN IF {b.name : b \in found} # t.to_read
          THEN Return(r, s, t.c.kind, "err_io", 0) /\ UNCHANGED data
          ELSE IF errors # {}
          THEN /\ \E e \in errors : Return(r, s, t.c.kind, e, Cardinality(valid))
               /\ data' = [data EXCEPT ![r] = MergeStates(@, valid)]
          ELSE /\ SetTask(r, s, [pc |-> "rs_commit", c |-> t.c, loaded |-> found])
               /\ UNCHANGED data
    /\ UNCHANGED <<keyVars, metaVars, auxVars, held, mode, cfg, opFiles, stateFiles, lock, acked, cnt>>

\* lines 427-455: Storage::load_states (fs::read fails on a missing file), then
\* the checks on every loaded blob; the first error ends the call.
RsLoad(r, s) ==
    /\ tasks[r][s].pc = "rs_load"
    /\ LET t == tasks[r][s]
           found == {b \in stateFiles : b.name \in t.to_read}
           errors == {DecodeError(b, t.key) : b \in found} \ {"ok"}
       IN IF {b.name : b \in found} # t.to_read
          THEN Return(r, s, t.c.kind, "err_io", 0)
          ELSE IF errors # {}
          THEN \E e \in errors :
                 Return(r, s, t.c.kind, e,
                        Cardinality({b \in found : DecodeError(b, t.key) = "ok"}))
          ELSE SetTask(r, s, [pc |-> "rs_commit", c |-> t.c, loaded |-> found])
    /\ UNCHANGED <<keyVars, metaVars, auxVars, held, mode, cfg, opFiles, stateFiles, data, lock, acked, cnt>>

\* lines 457-470
RsCommit(r, s) ==
    /\ tasks[r][s].pc = "rs_commit"
    /\ data' = [data EXCEPT ![r] = MergeStates(@, tasks[r][s].loaded)]
    /\ SetTask(r, s, [pc |-> "ro_list", c |-> tasks[r][s].c])
    /\ UNCHANGED <<keyVars, metaVars, auxVars, held, mode, cfg, opFiles, stateFiles, lock, acked, cnt>>

\* lines 474-478: Storage::list_op_actors.  An actor directory without files
\* loads nothing, so only the actors with files are listed.
RoList(r, s) ==
    /\ tasks[r][s].pc = "ro_list"
    /\ SetTask(r, s, [pc |-> "ro_snap", c |-> tasks[r][s].c,
                      actors |-> {b.actor : b \in opFiles}])
    /\ UNCHANGED <<keyVars, metaVars, auxVars, held, mode, cfg, opFiles, stateFiles, data, lock, acked, cnt>>

\* lines 480-489: first version to load per actor, and the latest key
RoSnap(r, s) ==
    /\ tasks[r][s].pc = "ro_snap"
    /\ SetTask(r, s, [pc |-> "ro_load", c |-> tasks[r][s].c,
                      firsts |-> [a \in tasks[r][s].actors |->
                                     data[r].next_op_versions[a]],
                      key |-> data[r].key])
    /\ UNCHANGED <<keyVars, metaVars, auxVars, held, mode, cfg, opFiles, stateFiles, data, lock, acked, cnt>>

\* A load_ops that returns every file of the actor from first_version on,
\* in ascending order, whether or not a version between them is missing.
LoadRunPastGaps(actor, version) ==
    LET vs == {b.version : b \in {x \in opFiles : x.actor = actor /\ x.version >= version}}
    IN [i \in 1 .. Cardinality(vs) |->
          OpFile(actor, CHOOSE v \in vs : Cardinality({w \in vs : w < v}) = i - 1)]

\* A load_ops that returns the contiguous run of an actor with the highest
\* version first.
RECURSIVE LoadRunDescending(_, _)
LoadRunDescending(actor, version) ==
    IF OpFileExists(actor, version)
    THEN LoadRunDescending(actor, version + 1) \o <<OpFile(actor, version)>>
    ELSE <<>>

\* Storage::load_ops, lines 255-283 of the blob store: per actor the files
\* first_version, first_version + 1, ... up to the first missing one.
RECURSIVE LoadRun(_, _)
LoadRun(actor, version) ==
    IF OpFileExists(actor, version)
    THEN <<OpFile(actor, version)>> \o LoadRun(actor, version + 1)
    ELSE <<>>

Orders(S) ==
    {f \in [1..Cardinality(S) -> S] : \A i, j \in DOMAIN f : f[i] = f[j] => i = j}

RECURSIVE LoadOps(_, _)
LoadOps(firsts, order) ==
    IF order = <<>> THEN <<>>
    ELSE LoadRun(Head(order), firsts[Head(order)]) \o LoadOps(firsts, Tail(order))

\* lines 491-514: load_ops (the actors complete in any order), then the checks
\* on every loaded blob.  A failed decrypt is unwrapped: it panics.
RoLoad(r, s) ==
    /\ tasks[r][s].pc = "ro_load"
    /\ LET t == tasks[r][s]
       IN \E order \in Orders(DOMAIN t.firsts) :
            LET loaded == LoadOps(t.firsts, order)
                errors == {DecodeError(loaded[i], t.key) : i \in DOMAIN loaded} \ {"ok"}
            IN IF errors # {}
               THEN \E e \in errors :
                      Return(r, s, t.c.kind,
                             IF e = "err_decrypt" THEN "panic" ELSE e, 0)
               ELSE SetTask(r, s, [pc |-> "ro_commit", c |-> t.c, loaded |-> loaded])
    /\ UNCHANGED <<keyVars, metaVars, auxVars, held, mode, cfg, opFiles, stateFiles, data, lock, acked, cnt>>

\* The commit loop with `version <= expected_version` as its skip test.
RECURSIVE CommitEntriesSkipEqual(_, _)
CommitEntriesSkipEqual(d, entries) ==
    IF entries = <<>> THEN [d |-> d, ok |-> TRUE]
    ELSE LET e == Head(entries)
             expected_version == d.next_op_versions[e.actor]
         IN IF e.version <= expected_version
            THEN CommitEntriesSkipEqual(d, Tail(entries))
            ELSE [d |-> d, ok |-> FALSE]

\* The commit loop without its skip test: an entry below the expected
\* version has its ops applied and the counter incremented like an entry at
\* the expected version.
RECURSIVE CommitEntriesApplyBelow(_, _)
CommitEntriesApplyBelow(d, entries) ==
    IF entries = <<>> THEN [d |-> d, ok |-> TRUE]
    ELSE LET e == Head(entries)
             expected_version == d.next_op_versions[e.actor]
         IN IF expected_version < e.version
            THEN [d |-> d, ok |-> FALSE]
            ELSE CommitEntriesApplyBelow(CommitOps(d, e), Tail(entries))

\* lines 518-541: the commit loop over the decoded entries
RECURSIVE CommitEntries(_, _)
CommitEntries(d, entries) ==
    IF entries = <<>> THEN [d |-> d, ok |-> TRUE]
    ELSE LET e == Head(entries)
             expected_version == d.next_op_versions[e.actor]
         IN IF e.version < expected_version
            THEN CommitEntries(d, Tail(entries))
            ELSE IF expected_version < e.version
            THEN [d |-> d, ok |-> FALSE]
            ELSE CommitEntries(CommitOps(d, e), Tail(entries))

\* lines 516-546, and the return of read_remote (lines 398-407) or the
\* continuation of compact
RoCommit(r, s) ==
    /\ tasks[r][s].pc = "ro_commit"
    /\ LET t == tasks[r][s]
           res == CommitEntries(data[r], t.loaded)
       IN /\ data' = [data EXCEPT ![r] =
                        IF res.ok THEN [res.d EXCEPT !.seen = @ \cup t.c.since]
                        ELSE res.d]
          /\ IF ~res.ok THEN Return(r, s, t.c.kind, "err_order", 0)
             ELSE IF t.c.kind = "read" THEN Return(r, s, "read", "ok", 0)
             ELSE SetTask(r, s, [pc |-> "c_snap", c |-> t.c])
    /\ UNCHANGED <<keyVars, metaVars, auxVars, held, mode, cfg, opFiles, stateFiles, lock, acked, cnt>>

(***************************************************************************)
(* Core::compact, after its read_remote.                                   *)
(***************************************************************************)
CompactCall(r, s) ==
    /\ CanCall(r, s)
    /\ cnt.compact < Limit[mode].compact
    /\ cnt' = [cnt EXCEPT !.compact = @ + 1]
    /\ SetTask(r, s, [pc |-> "rs_list",
                      c |-> [kind |-> "compact", id |-> cnt.compact + 1,
                             since |-> acked]])
    /\ UNCHANGED <<keyVars, metaVars, auxVars, held, mode, cfg, opFiles, stateFiles, data, lock, acked>>

\* lines 352-357: one dot (actor, counter - 1) per actor of next_op_versions
OpsToRemove(next_op_versions) ==
    {<<a, next_op_versions[a] - 1>> : a \in {x \in Replicas : next_op_versions[x] > 0}}

\* lines 347-362: snapshot of the state wrapper, of read_states, of the op dots
\* to remove and of the latest key
CSnap(r, s) ==
    /\ tasks[r][s].pc = "c_snap"
    /\ SetTask(r, s, [pc |-> "c_store", c |-> tasks[r][s].c,
                      clear_text |-> [ next_op_versions |-> data[r].next_op_versions,
                                       state |-> data[r].state,
                                       folded |-> data[r].folded ],
                      states_to_remove |-> data[r].read_states,
                      ops_to_remove |-> OpsToRemove(data[r].next_op_versions),
                      key |-> data[r].key])
    /\ UNCHANGED <<keyVars, metaVars, auxVars, held, mode, cfg, opFiles, stateFiles, data, lock, acked, cnt>>

\* lines 348 and 364-366: the state blob compact builds.  The serialized
\* StateWrapper is encrypted as it is (its first 16 bytes are what a reader
\* takes for the clear-text version) and the cipher text is framed with
\* current_data_version.  The name stands for the SHA3 digest of the blob, new
\* for every call because of the nonce.
CompactBlob(t) ==
    [ name |-> <<"c", t.c.id>>,
      outer |-> cfg.cur,
      inner |-> MsgpackPrefix,
      framed |-> FALSE,
      key |-> t.key,
      next_op_versions |-> t.clear_text.next_op_versions,
      state |-> t.clear_text.state,
      folded |-> t.clear_text.folded ]

\* lines 364-369: encrypt, frame, Storage::store_state
CStore(r, s) ==
    /\ tasks[r][s].pc = "c_store"
    /\ LET t == tasks[r][s]
       IN /\ stateFiles' = stateFiles \cup {CompactBlob(t)}
          /\ SetTask(r, s, [pc |-> "c_remove", c |-> t.c,
                            new_state_name |-> CompactBlob(t).name,
                            removed_states |-> t.states_to_remove,
                            states_to_remove |-> t.states_to_remove,
                            ops_to_remove |-> t.ops_to_remove])
    /\ UNCHANGED <<keyVars, metaVars, auxVars, held, mode, cfg, opFiles, data, lock, acked, cnt>>

\* Storage::remove_states, lines 187-208 of the blob store: one file at a time,
\* a missing file is no error
CRemoveState(r, s) ==
    /\ tasks[r][s].pc = "c_remove"
    /\ \E n \in tasks[r][s].states_to_remove :
          /\ stateFiles' = {b \in stateFiles : b.name # n}
          /\ SetTask(r, s, [tasks[r][s] EXCEPT !.states_to_remove = @ \ {n}])
    /\ UNCHANGED <<keyVars, metaVars, auxVars, held, mode, cfg, opFiles, data, lock, acked, cnt>>

\* The op files a remove_ops entry (actor, version) deletes: lines 302-306 of
\* the blob store build the one path ops/<actor>/<version>.
RemovedOpFiles(dot) ==
    {b \in opFiles : b.actor = dot[1] /\ b.version = dot[2]}

\* Storage::remove_ops, lines 301-321 of the blob store
CRemoveOp(r, s) ==
    /\ tasks[r][s].pc = "c_remove"
    /\ \E dot \in tasks[r][s].ops_to_remove :
          /\ opFiles' = opFiles \ RemovedOpFiles(dot)
          /\ SetTask(r, s, [tasks[r][s] EXCEPT !.ops_to_remove = @ \ {dot}])
    /\ UNCHANGED <<keyVars, metaVars, auxVars, held, mode, cfg, stateFiles, data, lock, acked, cnt>>

\* lines 377-386
CCommit(r, s) ==
    /\ tasks[r][s].pc = "c_remove"
    /\ tasks[r][s].states_to_remove = {}
    /\ tasks[r][s].ops_to_remove = {}
    /\ data' = [data EXCEPT ![r].read_states =
                   (@ \ tasks[r][s].removed_states) \cup {tasks[r][s].new_state_name}]
    /\ Return(r, s, "compact", "ok", 0)
    /\ UNCHANGED <<keyVars, metaVars, auxVars, held, mode, cfg, opFiles, stateFiles, lock, acked, cnt>>

(***************************************************************************)
(* The environment.                                                        *)
(***************************************************************************)
\* Another writer puts a state blob on the remote: a well-formed snapshot of
\* replica r (outer CURRENT_VERSION, clear text framed with
\* current_data_version), or the same under an outer version no reader
\* supports.
PutForeignState(r, valid) ==
    /\ cnt.foreign < Limit[mode].foreign
    /\ cnt' = [cnt EXCEPT !.foreign = @ + 1]
    /\ stateFiles' = stateFiles \cup
          {[ name |-> <<"f", cnt.foreign + 1>>,
             outer |-> IF valid THEN CURRENT_VERSION ELSE NilVersion,
             inner |-> cfg.cur,
             framed |-> TRUE,
             key |-> data[r].key,
             next_op_versions |-> data[r].next_op_versions,
             state |-> data[r].state,
             folded |-> data[r].folded ]}
    /\ UNCHANGED <<keyVars, metaVars, auxVars, held, mode, cfg, opFiles, data, tasks, lock, acked, last>>

\* The host drops the Core of replica r and opens it again on the same local
\* and remote storage (Core::open, lines 230-321): the local meta gives the
\* same actor, the remote meta the same keys, the record starts empty.
Reopen(r) ==
    /\ AllIdle
    /\ cnt.reopen < Limit[mode].reopen
    /\ cnt' = [cnt EXCEPT !.reopen = @ + 1]
    /\ data' = [data EXCEPT ![r] = EmptyData(data[r].key, data[r].opens + 1)]
    /\ last' = [r |-> r, kind |-> "open", res |-> "open_ok", info |-> 0]
    /\ UNCHANGED <<keyVars, metaVars, auxVars, held, mode, cfg, opFiles, stateFiles, tasks, lock, acked>>

\* The host drops the future of apply_ops at the await after store_ops
\* (lines 694-703): the op blob is stored, the commit of lines 705-711 never
\* runs, and the guard of apply_ops_lock is dropped with the future.
ApplyDrop(r, s) ==
    /\ tasks[r][s].pc = "ap_commit"
    /\ cnt.fail < Limit[mode].fail
    /\ cnt' = [cnt EXCEPT !.fail = @ + 1]
    /\ Return(r, s, "apply", "dropped", tasks[r][s].blob.version)
    /\ lock' = [lock EXCEPT ![r] = FALSE]
    /\ UNCHANGED <<keyVars, metaVars, auxVars, held, mode, cfg, opFiles, stateFiles, data, acked>>

\* The remote directory is brought to the replicas file by file: between two
\* calls an op file that was stored is not there for list_op_actors and
\* load_ops ...
HoldOp(b) ==
    /\ AllIdle
    /\ b \in opFiles
    /\ cnt.foreign < Limit[mode].foreign
    /\ cnt' = [cnt EXCEPT !.foreign = @ + 1]
    /\ opFiles' = opFiles \ {b}
    /\ held' = held \cup {b}
    /\ UNCHANGED <<keyVars, metaVars, auxVars, mode, cfg, stateFiles, data, tasks, lock, acked, last>>

\* ... and is there again later.
ReleaseOp(b) ==
    /\ AllIdle
    /\ b \in held
    /\ ~OpFileExists(b.actor, b.version)
    /\ opFiles' = opFiles \cup {b}
    /\ held' = held \ {b}
    /\ UNCHANGED <<keyVars, metaVars, auxVars, mode, cfg, stateFiles, data, tasks, lock, acked, last, cnt>>

(***************************************************************************)
(* The key registry on its own: every actor holds a registry, inserts new  *)
(* latest keys into it under its own actor id and merges the registries of *)
(* the others into it.                                                     *)
(***************************************************************************)
KeyIds == 1 .. MaxKeys

\* Core::open, lines 310-315: a key with a new random id (Key::new) becomes
\* the latest key of the registry of actor a.
KeysInsert(a) ==
    /\ khist.n < MaxKeyOps
    /\ \E k \in KeyIds \ khist.used :
          /\ regs' = [regs EXCEPT ![a] = insert_latest_key(@, a, k)]
          /\ khist' = [op |-> [kind |-> "insert", x |-> a, y |-> a, k |-> k],
                       ins |-> [khist.ins EXCEPT ![a] = k],
                       used |-> khist.used \cup {k},
                       n |-> khist.n + 1]
    /\ UNCHANGED <<metaVars, auxVars, engineVars>>

\* Core::set_keys, lines 389-396: the registry of actor y is merged into
\* that of actor x.
KeysMergeFrom(x, y) ==
    /\ khist.n < MaxKeyOps
    /\ x # y
    /\ regs' = [regs EXCEPT ![x] = KeysMerge(@, regs[y])]
    /\ khist' = [khist EXCEPT !.op = [kind |-> "merge", x |-> x, y |-> y, k |-> NoKey],
                              !.n = @ + 1]
    /\ UNCHANGED <<metaVars, auxVars, engineVars>>

(***************************************************************************)
(* Core::open and the remote meta, lines 229-322 and 549-667: specification *)
(* SpecOpen.  Each host process holds at most one Core and runs one call of *)
(* it at a time; the processes interleave at the awaits of the storage.     *)
(***************************************************************************)
SetHost(p, h) == host' = [host EXCEPT ![p] = h]

\* the bound on the calls the host processes make
MayCall == ohist.opens + ohist.reads + ohist.sets < HostLimit[mode].calls

\* lines 229-259: open builds the Core and initialises its capabilities
OpenCall(p, st, create) ==
    /\ host[p].pc = "closed"
    /\ ohist.opens < HostLimit[mode].opens
    /\ MayCall
    /\ SetHost(p, [NewCore("o_load", st, create) EXCEPT
                      !.late = \E x \in Stores : ohist.reported[x] # {}])
    /\ ohist' = [ohist EXCEPT !.opens = @ + 1]
    /\ UNCHANGED <<localMeta, metaFiles, keyVars, auxVars, engineVars>>

\* Uuid::new_v4(), line 278: an id no actor has yet.  Actor ids are only
\* compared for equality, so the first unused one stands for any of them.
NewActor(used) ==
    IF "A" \notin used THEN {"A"}
    ELSE IF "B" \notin used THEN {"B"}
    ELSE Actors \ used

\* An open that creates the local meta whenever there is none.
LocalMetaChoiceIgnoreCreate(lm, create) ==
    IF lm = NoLocalMeta THEN "create"
    ELSE IF EnsureVersions(SUPPORTED_VERSIONS, lm.version) THEN "load" ELSE "fail"

\* lines 266-289: what open does with the result of load_local_meta
LocalMetaChoice(lm, create) ==
    IF lm # NoLocalMeta
    THEN IF EnsureVersions(SUPPORTED_VERSIONS, lm.version) THEN "load" ELSE "fail"
    ELSE IF create THEN "create" ELSE "fail"

\* lines 261-281: load_local_meta, then either the stored actor id, an error,
\* or a new LocalMeta with a fresh Uuid::new_v4() framed for storing
OLoadLocal(p) ==
    /\ host[p].pc = "o_load"
    /\ LET h == host[p]
           lm == localMeta[h.store]
           choice == LocalMetaChoice(lm, h.create)
       IN CASE choice = "load" ->
                 /\ SetHost(p, [h EXCEPT !.pc = "m_list", !.local_meta = lm.actor])
                 /\ UNCHANGED ohist
            [] choice = "fail" ->
                 /\ SetHost(p, [h EXCEPT !.pc = "failed"])
                 /\ UNCHANGED ohist
            [] choice = "create" ->
                 \E a \in NewActor(ohist.actors) :
                    /\ SetHost(p, [h EXCEPT !.pc = "o_store_local",
                                            !.tmp = [version |-> CURRENT_VERSION,
                                                     actor |-> a]])
                    /\ ohist' = [ohist EXCEPT !.actors = @ \cup {a}]
    /\ UNCHANGED <<localMeta, metaFiles, keyVars, auxVars, engineVars>>

\* lines 283-304 and store_local_meta of the blob store (lines 71-82, a plain
\* overwriting write_file): the new local meta is stored and becomes the
\* Core's
OStoreLocal(p) ==
    /\ host[p].pc = "o_store_local"
    /\ LET h == host[p]
       IN /\ localMeta' = [localMeta EXCEPT ![h.store] = h.tmp]
          /\ SetHost(p, [h EXCEPT !.pc = "m_list", !.local_meta = h.tmp.actor,
                                  !.tmp = {}])
          /\ ohist' = [ohist EXCEPT !.stores[h.store] = @ + 1]
    /\ UNCHANGED <<metaFiles, keyVars, auxVars, engineVars>>

\* Core::read_remote_meta, lines 549-551, on an opened Core
ReadMetaCall(p) ==
    /\ host[p].pc = "ready"
    /\ ohist.reads < HostLimit[mode].reads
    /\ MayCall
    /\ SetHost(p, [host[p] EXCEPT !.pc = "m_list", !.call = "read_meta",
                                  !.notified = NoNotice])
    /\ ohist' = [ohist EXCEPT !.reads = @ + 1]
    /\ UNCHANGED <<localMeta, metaFiles, keyVars, auxVars, engineVars>>

\* lines 554-566: list_remote_meta_names, less the names already read
MList(p) ==
    /\ host[p].pc = "m_list"
    /\ SetHost(p, [host[p] EXCEPT !.pc = "m_load",
                                  !.tmp = metaFiles \ host[p].read_remote_metas])
    /\ UNCHANGED <<localMeta, metaFiles, ohist, keyVars, auxVars, engineVars>>

\* lines 583-586: the loaded metas are merged in the order they were loaded
RECURSIVE MergeMetas(_, _)
MergeMetas(m, blobs) ==
    IF blobs = <<>> THEN m
    ELSE MergeMetas(RemoteMetaMerge(m, Head(blobs).meta), Tail(blobs))

\* KeyHandler, crdt-enc-gpgme lib.rs 88-97 and 120-130: the Keys of the
\* register's values, folded with Keys::merge
RECURSIVE FoldKeys(_, _)
FoldKeys(acc, vals) ==
    IF vals = <<>> THEN acc
    ELSE FoldKeys(KeysMerge(acc, Head(vals).val), Tail(vals))

\* A read_remote_meta_ that notifies the capabilities only of a merge.
NotificationOnlyMerged(merged, force_notify, remote_meta) ==
    IF merged THEN [called |-> TRUE, some |-> TRUE, meta |-> remote_meta]
    ELSE NoNotice

\* lines 583-609: Some(register) of the merged remote meta for each
\* capability when a blob was merged, None for each when nothing was merged
\* and force_notify is set, no call otherwise
Notification(merged, force_notify, remote_meta) ==
    IF merged THEN [called |-> TRUE, some |-> TRUE, meta |-> remote_meta]
    ELSE IF force_notify THEN [called |-> TRUE, some |-> FALSE, meta |-> EmptyRemoteMeta]
    ELSE NoNotice

\* A call returns an error: a failed open leaves no Core, any other call
\* leaves the Core in use.
Back(h, call) == [h EXCEPT !.pc = IF call = "open" THEN "failed" ELSE "ready",
                           !.call = "open", !.tmp = {}]

\* lines 568-610: load_remote_metas (a listed file that is gone fails the
\* call), version check, merge, and the notification of the key handler:
\* KeyHandler::set_remote_meta (gpgme lib.rs 76-109) merges the register into
\* its own and hands the folded keys to Core::set_keys (lines 389-396).
MLoad(p) ==
    /\ host[p].pc = "m_load"
    /\ LET h == host[p]
       IN IF \/ ~(h.tmp \subseteq metaFiles)
             \/ \E b \in h.tmp : ~EnsureVersions(SUPPORTED_VERSIONS, b.outer)
          THEN /\ SetHost(p, Back(h, h.call))
               /\ UNCHANGED ohist
          ELSE \E order \in Orders(h.tmp) :
                 LET rm == MergeMetas(h.remote_meta, order)
                     notice == Notification(h.tmp # {}, h.call = "open", rm)
                     reg == IF notice.some
                            THEN MVRegMerge(h.handler, notice.meta.key_cryptor)
                            ELSE h.handler
                 IN \E vals \in Orders(reg) :
                      LET keys == IF notice.called
                                  THEN KeysMerge(h.keys, FoldKeys(EmptyKeys, vals))
                                  ELSE h.keys
                          done == [h EXCEPT !.remote_meta = rm,
                                            !.read_remote_metas = @ \cup h.tmp,
                                            !.handler = reg,
                                            !.keys = keys,
                                            !.notified = notice,
                                            !.tmp = {}]
                      IN IF h.call = "open"
                         THEN /\ SetHost(p, [done EXCEPT !.pc = "o_check"])
                              /\ UNCHANGED ohist
                         ELSE /\ SetHost(p, [done EXCEPT !.pc = "ready",
                                                         !.call = "open"])
                              /\ UNCHANGED ohist
    /\ UNCHANGED <<localMeta, metaFiles, keyVars, auxVars, engineVars>>

\* An open that generates a key of its own whatever the registry holds.
insert_new_key_always(keys) == TRUE

\* line 308
insert_new_key(keys) == latest_key(keys) = NoKey

\* KeyHandler::set_keys, gpgme lib.rs 111-148: the register after the write
\* of the folded keys under the actor's next dot
HandlerSetKeys(reg, vals, actor, new_keys) ==
    LET keys == KeysMerge(FoldKeys(EmptyKeys, vals), new_keys)
    IN MVRegApply(reg, MVRegWrite(reg, actor, keys))

\* lines 656-659: the remote meta framed for store_remote_meta
MetaBlob(remote_meta) == [outer |-> CURRENT_VERSION, meta |-> remote_meta]

\* lines 310-318 and 639-645: gen_key (Key::new draws a fresh id),
\* insert_latest_key, KeyHandler::set_keys, and the merge of the handler's
\* register into the Core's remote meta
OInsert(p) ==
    /\ host[p].pc = "o_check"
    /\ insert_new_key(host[p].keys)
    /\ LET h == host[p]
       IN \E k \in KeyIds \ ohist.keys :
            \E vals \in Orders(h.handler) :
              LET keys == insert_latest_key(h.keys, h.local_meta, k)
                  reg == HandlerSetKeys(h.handler, vals, h.local_meta, keys)
                  rm == [h.remote_meta EXCEPT
                           !.key_cryptor = MVRegMerge(@, reg)]
              IN /\ SetHost(p, [h EXCEPT !.pc = "m_store", !.keys = keys,
                                         !.handler = reg, !.remote_meta = rm])
                 /\ ohist' = [ohist EXCEPT !.keys = @ \cup {k},
                                           !.disturbed = @ \ {p}]
    /\ UNCHANGED <<localMeta, metaFiles, keyVars, auxVars, engineVars>>

\* The register a Storage hands to set_remote_meta_storage: the one it was
\* notified of with a setting written under the actor's next dot, or the one
\* it was notified of as it is.
StorageRegister(reg, actor, fresh) ==
    IF fresh THEN MVRegApply(reg, MVRegWrite(reg, actor, "setting")) ELSE reg

\* Core::set_remote_meta_storage, lines 614-623: the register is merged into
\* the Core's remote meta, which is then stored.
SetMetaCall(p, fresh) ==
    /\ host[p].pc = "ready"
    /\ ohist.sets < HostLimit[mode].sets
    /\ MayCall
    /\ LET h == host[p]
           reg == StorageRegister(h.remote_meta.storage, h.local_meta, fresh)
       IN SetHost(p, [h EXCEPT !.pc = "m_store", !.call = "set_meta",
                               !.remote_meta.storage = MVRegMerge(@, reg)])
    /\ ohist' = [ohist EXCEPT !.sets = @ + 1, !.disturbed = @ \ {p}]
    /\ UNCHANGED <<localMeta, metaFiles, keyVars, auxVars, engineVars>>

\* A store_remote_meta that removes none of the names it drains.
names_to_remove_none(read_remote_metas) == {}

\* line 659: read_remote_metas.drain().collect()
names_to_remove(read_remote_metas) == read_remote_metas

\* History: the hosts whose store_remote_meta is in flight while host p
\* writes or removes a remote meta blob join `disturbed`.
Disturbs(p) ==
    ohist.disturbed \cup {q \in Procs \ {p} : host[q].pc \in {"m_store", "m_remove"}}

\* store_remote_meta, lines 650-663: the blob is written under the name of
\* its content (write_new_file fails on an existing name); the names read so
\* far are drained for removal and the new name takes their place
MStore(p) ==
    /\ host[p].pc = "m_store"
    /\ LET h == host[p]
           blob == MetaBlob(h.remote_meta)
       IN IF blob \in metaFiles
          THEN /\ SetHost(p, Back(h, h.call))
               /\ UNCHANGED ohist
               /\ UNCHANGED metaFiles
          ELSE /\ metaFiles' = metaFiles \cup {blob}
               /\ SetHost(p, [h EXCEPT !.pc = "m_remove",
                                       !.tmp = names_to_remove(h.read_remote_metas),
                                       !.drained = h.read_remote_metas,
                                       !.read_remote_metas = {blob}])
               /\ ohist' = [ohist EXCEPT !.disturbed = Disturbs(p)]
    /\ UNCHANGED <<localMeta, keyVars, auxVars, engineVars>>

\* remove_remote_metas, lines 128-142 of the blob store: one file at a time,
\* a missing file is no error
MRemove(p) ==
    /\ host[p].pc = "m_remove"
    /\ \E n \in host[p].tmp :
          /\ metaFiles' = metaFiles \ {n}
          /\ SetHost(p, [host[p] EXCEPT !.tmp = @ \ {n}])
          /\ ohist' = [ohist EXCEPT !.disturbed = Disturbs(p),
                                    !.removed = @ \cup {n}]
    /\ UNCHANGED <<localMeta, keyVars, auxVars, engineVars>>

\* lines 663-666: store_remote_meta returns to a call other than open
MReturn(p) ==
    /\ host[p].pc = "m_remove"
    /\ host[p].tmp = {}
    /\ host[p].call # "open"
    /\ SetHost(p, [host[p] EXCEPT !.pc = "ready", !.call = "open"])
    /\ UNCHANGED ohist
    /\ UNCHANGED <<localMeta, metaFiles, keyVars, auxVars, engineVars>>

\* lines 308 and 321: open returns the Core and its Info, either with the
\* latest key it has read or after the one it inserted is stored
OpenReturn(p) ==
    /\ host[p].call = "open"
    /\ \/ host[p].pc = "o_check" /\ ~insert_new_key(host[p].keys)
       \/ host[p].pc = "m_remove" /\ host[p].tmp = {}
    /\ SetHost(p, [host[p] EXCEPT !.pc = "ready"])
    /\ ohist' = [ohist EXCEPT !.reported[host[p].store] = @ \cup {host[p].local_meta}]
    /\ UNCHANGED <<localMeta, metaFiles, keyVars, auxVars, engineVars>>

\* The host process drops its Core (or the error of a failed open).
Close(p) ==
    /\ host[p].pc \in {"ready", "failed"}
    /\ \A s \in Slots : calls[s].pc = "idle"
    /\ SetHost(p, ClosedCore)
    /\ UNCHANGED <<localMeta, metaFiles, ohist, keyVars, auxVars, engineVars>>

OpenStep(p) ==
    \/ \E st \in Stores, create \in BOOLEAN : OpenCall(p, st, create)
    \/ OLoadLocal(p)
    \/ OStoreLocal(p)
    \/ OInsert(p)
    \/ OpenReturn(p)
    \/ Close(p)

MetaStep(p) ==
    \/ ReadMetaCall(p)
    \/ \E fresh \in BOOLEAN : SetMetaCall(p, fresh)
    \/ MList(p)
    \/ MLoad(p)
    \/ MStore(p)
    \/ MRemove(p)
    \/ MReturn(p)

ApplyStep(r, s) ==
    \/ ApplyCall(r, s, NextVal)
    \/ ApplyLock(r, s)
    \/ ApplyReserve(r, s)
    \/ ApplyStore(r, s)
    \/ ApplyCommit(r, s)

ReadStep(r, s) ==
    \/ ReadCall(r, s)
    \/ RsList(r, s)
    \/ RsFilter(r, s)
    \/ RsLoad(r, s)
    \/ RsCommit(r, s)
    \/ RoList(r, s)
    \/ RoSnap(r, s)
    \/ RoLoad(r, s)
    \/ RoCommit(r, s)

CompactStep(r, s) ==
    \/ CompactCall(r, s)
    \/ CSnap(r, s)
    \/ CStore(r, s)
    \/ CRemoveState(r, s)
    \/ CRemoveOp(r, s)
    \/ CCommit(r, s)

(***************************************************************************)
(* "bytes": one VersionBytesBuf and the calls a consumer makes on it;      *)
(* "versions": one list of supported versions, sorted by open and then     *)
(* searched.  pure holds the value, the call made last, and its result.    *)
(***************************************************************************)
\* dst[i] as the caller filled it before chunks_vectored (the tests' 99 98,
\* 97 96, 95 94).
Filler(i) == <<101 - 2 * i, 100 - 2 * i>>

\* Buf::advance(cnt) on the buffer.  A panic unwinds: nothing follows it.
BufAdvance(count) ==
    /\ mode = "bytes"
    /\ ~pure.panicked
    /\ LET r == advance(pure.buf, count)
       IN pure' = [pure EXCEPT !.op = "advance", !.arg = count, !.res = r.panic,
                               !.buf = r.buf, !.panicked = r.panic,
                               !.consumed = IF r.panic THEN @ ELSE @ + count]
    /\ UNCHANGED <<calls, exec, keyVars, metaVars, engineVars>>

\* Buf::chunks_vectored(&mut dst) with d slots.
BufChunksVectored(d) ==
    /\ mode = "bytes"
    /\ ~pure.panicked
    /\ LET dst == [i \in 1..d |-> Filler(i)]
       IN pure' = [pure EXCEPT !.op = "chunks_vectored", !.arg = dst,
                               !.res = chunks_vectored(pure.buf, dst)]
    /\ UNCHANGED <<calls, exec, keyVars, metaVars, engineVars>>

\* VersionBytesRef::serialize of the version and payload the buffer was made
\* of; it reads through a buffer of its own.
BufSerialize ==
    /\ mode = "bytes"
    /\ ~pure.panicked
    /\ pure' = [pure EXCEPT !.op = "serialize", !.arg = <<>>,
                            !.res = serialize(pure.buf.version, pure.buf.content)]
    /\ UNCHANGED <<calls, exec, keyVars, metaVars, engineVars>>

\* VersionBytesRef::deserialize of a slice: the first n bytes of a blob.
BufDeserialize(n) ==
    /\ mode = "bytes"
    /\ ~pure.panicked
    /\ LET slice == SubSeq(pure.buf.version \o pure.buf.content, 1, n)
       IN pure' = [pure EXCEPT !.op = "deserialize", !.arg = slice,
                               !.res = deserialize(slice)]
    /\ UNCHANGED <<calls, exec, keyVars, metaVars, engineVars>>

\* Core::open sorts the supported_data_versions the user supplied.
OpenSort ==
    /\ mode = "versions"
    /\ pure.op = "new"
    /\ pure' = [pure EXCEPT !.op = "open", !.versions = SortUnstable(pure.user)]
    /\ UNCHANGED <<calls, exec, keyVars, metaVars, engineVars>>

\* VersionBytesRef::ensure_versions of a blob of version x against the list
\* the Core holds.
EnsureVersionsCall(x) ==
    /\ mode = "versions"
    /\ pure.op # "new"
    /\ pure' = [pure EXCEPT !.op = "ensure_versions", !.arg = x,
                            !.res = EnsureVersions(pure.versions, x)]
    /\ UNCHANGED <<calls, exec, keyVars, metaVars, engineVars>>

NextBytes ==
    \/ \E count \in 0..(remaining(pure.buf) + MaxOver) : BufAdvance(count)
    \/ \E d \in 0..MaxSlots : BufChunksVectored(d)
    \/ BufSerialize
    \/ \E n \in 0..(VERSION_LEN + Len(pure.buf.content)) : BufDeserialize(n)

NextVersions ==
    \/ OpenSort
    \/ \E x \in VersionIds : EnsureVersionsCall(x)

(***************************************************************************)
(* "race": the Core of one host process and the set_remote_meta_* calls    *)
(* its storage and its cryptor make on it, which may overlap: each call is *)
(* a future on the shared Arc<Core>, and takes the data lock only for the  *)
(* single with_mut_data blocks.                                            *)
(***************************************************************************)
RaceHost == "p1"

RaceFields == {"storage", "cryptor"}

\* Core::set_remote_meta_storage and Core::set_remote_meta_cryptor, lines
\* 614-621 and 626-633: the register the component hands over, holding a new
\* setting, is merged into the Core's remote meta.  A component makes one
\* call at a time.
RaceCall(s, field) ==
    /\ host[RaceHost].pc = "ready"
    /\ calls[s].pc = "idle"
    /\ \A t \in Slots : calls[t].pc # "idle" => calls[t].field # field
    /\ ohist.sets < HostLimit[mode].sets
    /\ MayCall
    /\ LET h == host[RaceHost]
           reg == StorageRegister(h.remote_meta[field], h.local_meta, TRUE)
       IN SetHost(RaceHost,
                  [h EXCEPT !.remote_meta[field] = MVRegMerge(@, reg)])
    /\ calls' = [calls EXCEPT ![s] = [pc |-> "serialize", field |-> field,
                                      vbox |-> {}, tmp |-> {}]]
    /\ ohist' = [ohist EXCEPT !.sets = @ + 1]
    /\ UNCHANGED <<pure, exec, localMeta, metaFiles, keyVars, engineVars>>

\* store_remote_meta, lines 651-654: the remote meta as it is now, framed
RaceSerialize(s) ==
    /\ calls[s].pc = "serialize"
    /\ calls' = [calls EXCEPT ![s].pc = "store",
                              ![s].vbox = MetaBlob(host[RaceHost].remote_meta)]
    /\ UNCHANGED <<pure, exec, metaVars, keyVars, engineVars>>

\* line 656: the blob is written under the name of its content; an existing
\* name fails the call
RaceStore(s) ==
    /\ calls[s].pc = "store"
    /\ IF calls[s].vbox \in metaFiles
       THEN /\ calls' = [calls EXCEPT ![s] = Idle]
            /\ UNCHANGED metaFiles
       ELSE /\ metaFiles' = metaFiles \cup {calls[s].vbox}
            /\ calls' = [calls EXCEPT ![s].pc = "swap"]
    /\ UNCHANGED <<pure, exec, localMeta, host, ohist, keyVars, engineVars>>

\* lines 658-662: the names read so far are drained and the new name takes
\* their place
RaceSwap(s) ==
    /\ calls[s].pc = "swap"
    /\ SetHost(RaceHost, [host[RaceHost] EXCEPT
                            !.read_remote_metas = {calls[s].vbox},
                            !.drained = host[RaceHost].read_remote_metas])
    /\ calls' = [calls EXCEPT
                   ![s].pc = "remove",
                   ![s].tmp = names_to_remove(host[RaceHost].read_remote_metas)]
    /\ UNCHANGED <<pure, exec, localMeta, metaFiles, ohist, keyVars, engineVars>>

\* line 664 and remove_remote_metas of the blob store: one file at a time, a
\* missing file is no error
RaceRemove(s) ==
    /\ calls[s].pc = "remove"
    /\ \E n \in calls[s].tmp :
          /\ metaFiles' = metaFiles \ {n}
          /\ calls' = [calls EXCEPT ![s].tmp = @ \ {n}]
    /\ UNCHANGED <<pure, exec, localMeta, host, ohist, keyVars, engineVars>>

\* line 666
RaceReturn(s) ==
    /\ calls[s].pc = "remove"
    /\ calls[s].tmp = {}
    /\ calls' = [calls EXCEPT ![s] = Idle]
    /\ UNCHANGED <<pure, exec, metaVars, keyVars, engineVars>>

RaceStep(s) ==
    \/ \E field \in RaceFields : RaceCall(s, field)
    \/ RaceSerialize(s)
    \/ RaceStore(s)
    \/ RaceSwap(s)
    \/ RaceRemove(s)
    \/ RaceReturn(s)

NextRace ==
    \/ OpenStep(RaceHost)
    \/ MList(RaceHost)
    \/ MLoad(RaceHost)
    \/ MStore(RaceHost)
    \/ \E s \in Slots : RaceStep(s)

(***************************************************************************)
(* "task": the TaskMgrExecutor of task.rs.  A task is a future that        *)
(* returns Pending `left` times and then its result; a pending task is     *)
(* polled again after it was woken.  A call of poll runs to its return     *)
(* without a step of another thread that it could observe: it reads the    *)
(* channel only in its first loop.                                         *)
(***************************************************************************)
TaskIds == 1 .. MaxTasks

\* TaskMgr::clone, line 111: one more sender to the channel
CloneHandle ==
    /\ mode = "task"
    /\ exec.senders >= 1
    /\ exec.senders < MaxHandles
    /\ exec' = [exec EXCEPT !.senders = @ + 1]
    /\ UNCHANGED <<pure, calls, keyVars, metaVars, engineVars>>

\* A TaskMgr handle is dropped; the drop of the last sender closes the
\* channel and wakes the receiver.
DropHandle ==
    /\ mode = "task"
    /\ exec.senders >= 1
    /\ exec' = [exec EXCEPT !.senders = @ - 1,
                            !.woken = @ \/ exec.senders = 1]
    /\ UNCHANGED <<pure, calls, keyVars, metaVars, engineVars>>

\* TaskMgr::spawn and spawn_with_handle, lines 129-152: the boxed future is
\* sent on the channel; the send succeeds while the receiver exists and wakes
\* the task that polls it.
Spawn(id, left, res) ==
    /\ mode = "task"
    /\ exec.senders >= 1
    /\ ~exec.dropped
    /\ id \notin exec.spawned
    /\ \A j \in TaskIds : j < id => j \in exec.spawned
    /\ exec' = [exec EXCEPT !.rx = Append(@, [id |-> id, left |-> left, res |-> res]),
                            !.spawned = @ \cup {id},
                            !.woken = TRUE]
    /\ UNCHANGED <<pure, calls, keyVars, metaVars, engineVars>>

\* The event a pending task waits for: its waker is called, which puts it
\* into the ready queue of the FuturesUnordered and wakes the executor.
TaskWake(t) ==
    /\ mode = "task"
    /\ exec.out = "pending"
    /\ t \in exec.futs
    /\ ~t.ready
    /\ exec' = [exec EXCEPT !.futs = (@ \ {t}) \cup {[t EXCEPT !.ready = TRUE]},
                            !.woken = TRUE]
    /\ UNCHANGED <<pure, calls, keyVars, metaVars, engineVars>>

\* lines 76-78: every future in the channel is pushed to futs; a pushed
\* future is in the ready queue
Received(rx) == {[id |-> rx[i].id, left |-> rx[i].left, res |-> rx[i].res,
                  ready |-> TRUE] : i \in 1..Len(rx)}

\* lines 89-101: futs.poll_next_unpin until it is Pending.  The ready tasks
\* are polled in the order of the ready queue; Some(Ok) goes on, Some(Err)
\* returns the error, None (the set is empty) returns Ok, and Pending (tasks
\* remain, none is ready) returns Pending.
RECURSIVE PollFuts(_, _, _)
PollFuts(futs, order, done) ==
    IF order = <<>>
    THEN [futs |-> futs, done |-> done,
          out |-> IF futs = {} THEN "ok" ELSE "pending"]
    ELSE LET t == Head(order)
         IN IF t.left > 0
            THEN PollFuts((futs \ {t}) \cup {[t EXCEPT !.left = @ - 1, !.ready = FALSE]},
                          Tail(order), done)
            ELSE IF t.res = "err"
            THEN [futs |-> futs \ {t}, done |-> done \cup {t.id}, out |-> "err"]
            ELSE PollFuts(futs \ {t}, Tail(order), done \cup {t.id})

\* TaskMgrExecutor::poll, lines 75-102, called by the runtime after a wake.
\* The receiver is terminated once it has returned None: the channel is
\* empty and every sender is dropped.
Poll ==
    /\ mode = "task"
    /\ exec.woken
    /\ exec.out = "pending"
    /\ ~exec.dropped
    /\ LET futs == exec.futs \cup Received(exec.rx)
           terminated == exec.senders = 0
           ready == {t \in futs : t.ready}
       IN IF futs = {}
          THEN exec' = [exec EXCEPT !.rx = <<>>, !.terminated = terminated,
                                    !.woken = FALSE,
                                    !.out = IF terminated THEN "ok" ELSE "pending"]
          ELSE \E order \in Orders(ready) :
                  LET r == PollFuts(futs, order, exec.done)
                  IN exec' = [exec EXCEPT !.rx = <<>>, !.terminated = terminated,
                                          !.woken = FALSE, !.futs = r.futs,
                                          !.done = r.done, !.out = r.out]
    /\ UNCHANGED <<pure, calls, keyVars, metaVars, engineVars>>

\* The owner drops the executor after it has completed: the receiver is
\* gone and a later spawn returns SpawnError::shutdown().
DropExecutor ==
    /\ mode = "task"
    /\ exec.out # "pending"
    /\ ~exec.dropped
    /\ exec' = [exec EXCEPT !.dropped = TRUE]
    /\ UNCHANGED <<pure, calls, keyVars, metaVars, engineVars>>

NextTask ==
    \/ CloneHandle
    \/ DropHandle
    \/ \E id \in TaskIds, left \in 0..MaxPending, res \in {"ok", "err"} :
          Spawn(id, left, res)
    \/ \E t \in exec.futs : TaskWake(t)
    \/ Poll
    \/ DropExecutor

(***************************************************************************)
(* "keyed": the engine with a key registry per replica, after the replicas *)
(* opened at the same time.  regs[r] is data.keys of replica r,            *)
(* data[r].key its latest_key().                                           *)
(***************************************************************************)
\* read_remote_meta_ with the registry another replica stored, lines 583-602,
\* KeyHandler::set_remote_meta and Core::set_keys, lines 389-396: the
\* registries are merged.
KeyedMerge(r, q) ==
    /\ r # q
    /\ KeysMerge(regs[r], regs[q]) # regs[r]
    /\ LET keys == KeysMerge(regs[r], regs[q])
       IN /\ regs' = [regs EXCEPT ![r] = keys]
          /\ data' = [data EXCEPT ![r].key = latest_key(keys)]
    /\ UNCHANGED <<khist, metaVars, auxVars, held, mode, cfg, opFiles, stateFiles,
                   tasks, lock, acked, last, cnt>>

NextKeyed ==
    \/ \E r \in Replicas, s \in Slots : ApplyStep(r, s) \/ ReadStep(r, s)
    \/ \E r, q \in Replicas : KeyedMerge(r, q)

Next ==
    \E r \in Replicas, s \in Slots :
        ApplyStep(r, s) \/ ReadStep(r, s) \/ CompactStep(r, s)

NextSeq ==
    \/ \E r \in Replicas, s \in Slots :
          ApplyStep(r, s) \/ ReadStep(r, s) \/ CompactStep(r, s)
    \/ \E r \in Replicas : Reopen(r)

NextFail ==
    \E r \in Replicas, s \in Slots :
        \/ ApplyStep(r, s)
        \/ ApplyEncryptFail(r, s)
        \/ ApplyStoreFail(r, s)
        \/ ReadStep(r, s)

NextForeign ==
    \/ \E r \in Replicas, s \in Slots : ApplyStep(r, s) \/ ReadStep(r, s)
    \/ \E r \in Replicas, valid \in BOOLEAN : PutForeignState(r, valid)

NextEnv ==
    \/ \E r \in Replicas, s \in Slots :
          ApplyStep(r, s) \/ ApplyDrop(r, s) \/ ReadStep(r, s)
    \/ \E b \in opFiles : HoldOp(b)
    \/ \E b \in held : ReleaseOp(b)

NextKeys ==
    \/ \E a \in Actors : KeysInsert(a)
    \/ \E x, y \in Actors : KeysMergeFrom(x, y)

NextOpen == \E p \in Procs : OpenStep(p) \/ MetaStep(p)

Spec == Init /\ [][Next]_vars

SpecKeys == InitKeys /\ [][NextKeys]_vars

SpecOpen == InitOpen /\ [][NextOpen]_vars

SpecEnv == InitEnv /\ [][NextEnv]_vars

SpecMeta == InitMeta /\ [][NextOpen]_vars

SpecBytes == InitBytes /\ [][NextBytes]_vars

SpecVersions == InitVersions /\ [][NextVersions]_vars

SpecRace == InitRace /\ [][NextRace]_vars

SpecKeyed == InitKeyed /\ [][NextKeyed]_vars

SpecTask == InitTask /\ [][NextTask]_vars

SpecSeq == InitSeq /\ [][NextSeq]_vars

SpecFail == InitFail /\ [][NextFail]_vars

SpecForeign == InitForeign /\ [][NextForeign]_vars

(***************************************************************************)
(* Properties.                                                             *)
(***************************************************************************)
\* The first write of `actor`, made on an empty register (no read_remote
\* before it), of value val.
IsFirstWrite(b, actor, val) ==
    /\ b.actor = actor
    /\ b.version = 0
    /\ b.op = [clock |-> ClockInc(ZeroClock, actor), val |-> val]

\* The run is scenario 2 of the testable properties: A has written 1 and B has
\* written 2, each before any read_remote of its own, nothing else was written
\* and nothing was compacted; replica r has since called read_remote, which
\* returned Ok.
BothWritesSeen(r) ==
    /\ cnt.apply = 2
    /\ cnt.compact = 0
    /\ \E a \in data[r].seen : IsFirstWrite(a, "A", 1)
    /\ \E b \in data[r].seen : IsFirstWrite(b, "B", 2)

\* C1: when A has written 1 and B has written 2 concurrently, a replica that
\* has called read_remote after both writes were acknowledged holds both
\* values in its MVReg, however the calls of the two replicas interleave.
C1_BothValuesRetained ==
    \A r \in Replicas : BothWritesSeen(r) => {1, 2} \subseteq MVRegVals(data[r].state)

\* C1 witness: both replicas have read after both writes and hold {1, 2}.
C1_Witness ==
    \A r \in Replicas : BothWritesSeen(r) /\ MVRegVals(data[r].state) = {1, 2}

\* C2: when an apply_ops that stored its blob at (actor, v) returns,
\* next_op_versions[actor] is exactly v + 1, whatever read_remote, compact or
\* apply_ops calls ran on the same replica meanwhile.
C2_ReturnsWithNextVersion ==
    [][\A r \in Replicas, s \in Slots :
          (tasks[r][s].pc = "ap_commit" /\ tasks'[r][s].pc = "idle")
              => data'[r].next_op_versions[r] = tasks[r][s].blob.version + 1]_vars

FoldedVersions(r, a) == {d[2] : d \in {x \in data[r].folded : x[1] = a}}

\* C3: for every replica r and actor a, the versions of a's ops folded into
\* r's state are exactly 0 .. next_op_versions[a] - 1.
C3_FoldedIsDensePrefix ==
    \A r, a \in Replicas :
        FoldedVersions(r, a) = 0 .. (data[r].next_op_versions[a] - 1)

\* What a replica opened now on an empty local storage, with the latest key
\* `key`, gets from one read_remote that runs without interleaving:
\* read_remote_states (lines 409-471), then read_remote_ops (lines 473-547).
FreshRead(key) ==
    LET state_errors == {DecodeError(b, key) : b \in stateFiles} \ {"ok"}
        d1 == MergeStates(EmptyData(key, 1), stateFiles)
        actors == {b.actor : b \in opFiles}
        firsts == [a \in actors |-> d1.next_op_versions[a]]
        loaded == LoadOps(firsts, CHOOSE o \in Orders(actors) : TRUE)
        op_errors == {DecodeError(loaded[i], key) : i \in DOMAIN loaded} \ {"ok"}
    IN IF state_errors # {} \/ op_errors # {}
       THEN [ok |-> FALSE, d |-> EmptyData(key, 1)]
       ELSE CommitEntries(d1, loaded)

\* C4: at every point of every run (in the middle of a compact, between its
\* store_state and its removals, and so on) a fresh replica can read the
\* remote, and what it rebuilds contains every op whose apply_ops returned Ok.
C4_RemoteRebuildsAcked ==
    \A b \in acked :
        /\ FreshRead("k1").ok
        /\ <<b.actor, b.version>> \in FreshRead("k1").d.folded

AckedVersions(a) == {b.version : b \in {x \in acked : x.actor = a}}

\* C5: replica A has applied three ops and then completed a compact, one
\* call at a time: no op blob of A is left on the remote and exactly one state
\* blob, the new one, exists.
C5_CompactLeavesOneState ==
    ( /\ AllIdle
      /\ last = [r |-> "A", kind |-> "compact", res |-> "ok", info |-> 0]
      /\ cnt.compact = 1
      /\ AckedVersions("A") = {0, 1, 2} )
    => /\ \A b \in opFiles : b.actor # "A"
       /\ {b.name : b \in stateFiles} = {<<"c", 1>>}

\* C6: after a compact of A has stored its state blob, the first read_remote
\* of replica B, which has applied nothing, returns Ok, has read that blob
\* and leaves B with the user state and the next_op_versions of the snapshot.
C6_CompactedStateIsReadBack ==
    ( /\ AllIdle
      /\ last.r = "B" /\ last.kind = "read"
      /\ cnt.read = 1 /\ cnt.compact = 1
      /\ AckedVersions("B") = {}
      /\ stateFiles # {} )
    => /\ last.res = "ok"
       /\ \E b \in stateFiles :
             /\ b.name \in data["B"].read_states
             /\ data["B"].state = b.state
             /\ data["B"].next_op_versions = b.next_op_versions

\* C7: every op blob and every state blob on the remote carries an outer
\* version of SUPPORTED_VERSIONS and a clear-text version of
\* supported_data_versions, the checks a reader applies to it.
C7_PersistedBlobsPassChecks ==
    /\ \A b \in opFiles :
          /\ EnsureVersions(SUPPORTED_VERSIONS, b.outer)
          /\ EnsureVersions(supported_data_versions, b.inner)
    /\ \A b \in stateFiles :
          /\ EnsureVersions(SUPPORTED_VERSIONS, b.outer)
          /\ EnsureVersions(supported_data_versions, b.inner)

AckedBlob(a, v) == CHOOSE b \in acked : b.actor = a /\ b.version = v

\* The register after the acknowledged ops 0 .. k-1 of actor a were applied
\* to an empty register in the order of their versions.
RECURSIVE AppliedInOrder(_, _)
AppliedInOrder(a, k) ==
    IF k = 0 THEN {}
    ELSE MVRegApply(AppliedInOrder(a, k - 1), AckedBlob(a, k - 1).op)

\* Only actor a has written, nothing was compacted, and replica r has since
\* called read_remote, which returned Ok.
ReadAfterWritesOf(r, a) ==
    /\ cnt.compact = 0
    /\ acked # {}
    /\ \A b \in acked : b.actor = a
    /\ data[r].seen = acked

\* C8: as long as nothing is compacted, a replica that has read the remote
\* after ops were acknowledged has folded every one of them in; when a single
\* actor has applied the k ops
\* 0 .. k-1, the reader (the writer itself after a reopen, or another replica)
\* has next_op_versions[a] = k and the register that applying versions
\* 0 .. k-1 in order gives, which holds the last value written alone: after
\* one write of 1, exactly the value 1.
C8_ReaderAppliesAllInOrder ==
    \A r, a \in Replicas :
        /\ cnt.compact = 0 =>
              \A b \in data[r].seen : <<b.actor, b.version>> \in data[r].folded
        /\ ReadAfterWritesOf(r, a) =>
              LET k == Cardinality(acked)
              IN /\ AckedVersions(a) = 0 .. (k - 1)
                 /\ FoldedVersions(r, a) = 0 .. (k - 1)
                 /\ data[r].next_op_versions[a] = k
                 /\ data[r].state = AppliedInOrder(a, k)
                 /\ MVRegVals(data[r].state) = {AckedBlob(a, k - 1).op.val}

\* C8 witness: A has written 1, was closed and reopened, has read the remote
\* and observes exactly the value 1.
C8_Witness ==
    /\ ReadAfterWritesOf("A", "A")
    /\ Cardinality(acked) = 1
    /\ data["A"].opens = 2
    /\ last = [r |-> "A", kind |-> "read", res |-> "ok", info |-> 0]
    /\ MVRegVals(data["A"].state) = {1}

ApplyPcs == {"ap_lock", "ap_enc", "ap_store"}

\* C9: no step of an apply_ops call before its commit changes the replica
\* record; when store_ops fails the call returns an error with the reserved
\* version still the next one of the actor, and the apply_ops that reserves
\* next on that replica reserves the same version.
C9_FailedStoreLeavesRecord ==
    [][\A r \in Replicas, s \in Slots :
          /\ (tasks'[r][s] # tasks[r][s]
                 /\ (tasks[r][s].pc \in ApplyPcs \/ tasks'[r][s].pc \in ApplyPcs))
               => data'[r] = data[r]
          /\ (tasks[r][s].pc = "ap_store" /\ tasks'[r][s].pc = "idle")
               => /\ last'.kind = "apply" /\ last'.r = r
                  /\ last'.res \in {"err_io", "err_exists"}
                  /\ last'.res = "err_io" =>
                        data'[r].next_op_versions[r] = tasks[r][s].blob.version
          /\ ( /\ tasks[r][s].pc = "ap_enc" /\ tasks'[r][s].pc = "ap_store"
               /\ last.kind = "apply" /\ last.r = r /\ last.res = "err_io" )
               => tasks'[r][s].blob.version = last.info]_vars

\* C9 witness: an apply_ops of r failed in store_ops with version v reserved,
\* and the next apply_ops of r has reserved v again.
C9_Witness ==
    \E r \in Replicas, s \in Slots :
        /\ last.kind = "apply" /\ last.r = r /\ last.res = "err_io"
        /\ tasks[r][s].pc = "ap_store"
        /\ tasks[r][s].blob.version = last.info
        /\ data[r] = EmptyData("k1", 1)

\* The state blobs of the names a read_remote_states is about to load that
\* carry an outer version outside SUPPORTED_VERSIONS.
UnsupportedToRead(t) ==
    {b \in stateFiles : b.name \in t.to_read
                           /\ ~EnsureVersions(SUPPORTED_VERSIONS, b.outer)}

ReadStatesPcs == {"rs_list", "rs_filter", "rs_load"}

\* C10: a read_remote that loads a state blob with an unsupported outer
\* version returns the version mismatch, and no step of the call up to that
\* return changes the replica record (user state, next_op_versions,
\* read_states), whatever valid blobs were loaded with it.
C10_VersionMismatchLeavesRecord ==
    [][\A r \in Replicas, s \in Slots :
          /\ (tasks'[r][s] # tasks[r][s] /\ tasks[r][s].pc \in ReadStatesPcs)
               => data'[r] = data[r]
          /\ ( /\ tasks'[r][s] # tasks[r][s]
               /\ tasks[r][s].pc = "rs_load"
               /\ UnsupportedToRead(tasks[r][s]) # {} )
               => /\ tasks'[r][s].pc = "idle"
                  /\ last' = [r |-> r, kind |-> "read", res |-> "err_version",
                              info |-> last'.info]]_vars

\* C10 witness: a read_remote has returned the version mismatch after it had
\* loaded a valid, not yet read state blob too, one that differs from what
\* the replica holds.
C10_Witness ==
    /\ last.kind = "read" /\ last.res = "err_version" /\ last.info >= 1
    /\ \E b \in stateFiles :
          /\ EnsureVersions(SUPPORTED_VERSIONS, b.outer)
          /\ b.name \notin data[last.r].read_states
          /\ b.state # {}
          /\ data[last.r].state = {}

\* C11: when encrypt fails inside apply_ops, the call ends by returning an
\* error value to its caller, not by a panic, and the replica record is what
\* it was.
C11_CipherFailureReturnsErr ==
    [][\A r \in Replicas, s \in Slots :
          (tasks[r][s].pc = "ap_enc" /\ tasks'[r][s].pc = "idle")
              => /\ last'.r = r /\ last'.kind = "apply"
                 /\ last'.res # "panic"
                 /\ data'[r] = data[r]]_vars

\* What a reader compares of a key registry: the values of latest_key_id and
\* of keys.
KeysRead(x) == [latest_key_id |-> MVRegVals(x.latest_key_id), keys |-> OrswotVals(x.keys)]

\* C17: Keys::merge is commutative, associative and idempotent on the
\* registries reached by inserts and merges, compared on the read values.
C17_MergeIsSemilattice ==
    /\ \A a \in Actors : KeysRead(KeysMerge(regs[a], regs[a])) = KeysRead(regs[a])
    /\ \A a, b \in Actors :
          a # b => KeysRead(KeysMerge(regs[a], regs[b]))
                     = KeysRead(KeysMerge(regs[b], regs[a]))
    /\ \A a, b, c \in Actors :
          (a # b /\ b # c) =>
              KeysRead(KeysMerge(KeysMerge(regs[a], regs[b]), regs[c]))
                = KeysRead(KeysMerge(regs[a], KeysMerge(regs[b], regs[c])))

\* C17 witness: three registries that differ pairwise in their read values,
\* two of them with several latest ids.
C17_Witness ==
    /\ KeysRead(regs["A"]) # KeysRead(regs["B"])
    /\ KeysRead(regs["B"]) # KeysRead(regs["C"])
    /\ KeysRead(regs["A"]) # KeysRead(regs["C"])
    /\ Cardinality(MVRegVals(regs["A"].latest_key_id)) = 2
    /\ Cardinality(MVRegVals(regs["B"].latest_key_id)) = 2
    /\ MVRegVals(regs["C"].latest_key_id) # {}

\* Every insert so far was made by another actor on a registry that had seen
\* no insert: each actor has inserted at most once and every latest id still
\* carries the clock of its own insert alone.
InsertsAreConcurrent ==
    /\ Cardinality(khist.used) = Cardinality({a \in Actors : khist.ins[a] # NoKey})
    /\ \A a \in Actors : \A v \in regs[a].latest_key_id :
          \E b \in Actors : v.clock = ClockInc(ZeroClock, b)

SetMin(S) == CHOOSE x \in S : \A y \in S : x <= y

\* C18: when the inserts were concurrent, every registry that has merged all
\* of them, in whatever order, returns as latest key the one with the
\* smallest id of all that were inserted; registries that have merged the
\* same inserts return the same latest key.
C18_ConcurrentInsertsConvergeToMin ==
    InsertsAreConcurrent =>
        /\ \A a \in Actors :
              (khist.used # {} /\ OrswotVals(regs[a].keys) = khist.used)
                  => latest_key(regs[a]) = SetMin(khist.used)
        /\ \A a, b \in Actors :
              OrswotVals(regs[a].keys) = OrswotVals(regs[b].keys)
                  => latest_key(regs[a]) = latest_key(regs[b])

\* C18 witness: three actors have inserted concurrently, and a registry other
\* than that of the smallest id has merged all three inserts and returns
\* the smallest id.
C18_Witness ==
    /\ InsertsAreConcurrent
    /\ Cardinality(khist.used) = 3
    /\ \E a \in Actors :
          /\ OrswotVals(regs[a].keys) = khist.used
          /\ Cardinality(MVRegVals(regs[a].latest_key_id)) = 3
          /\ latest_key(regs[a]) = SetMin(khist.used)
          /\ khist.ins[a] # SetMin(khist.used)

\* C19 as stated: the registry of an actor returns the key that actor
\* inserted last, whatever was merged into it since.
C19_LatestIsLastInserted ==
    \A a \in Actors :
        khist.ins[a] # NoKey => latest_key(regs[a]) = khist.ins[a]

\* The step merges the registry of y into that of x.
IsMergeStep(x, y) ==
    /\ khist'.n = khist.n + 1
    /\ khist'.op = [kind |-> "merge", x |-> x, y |-> y, k |-> NoKey]

\* Registry x has seen every latest id registry y holds.
LatestSeen(x, y) ==
    MVRegVals(regs[y].latest_key_id) \subseteq OrswotVals(regs[x].keys)

\* C19 amended: right after insert_latest_key(a, k) the registry returns k,
\* whatever it held before, and it keeps returning k under every merge of a
\* registry whose latest ids it has seen.
C19_LatestIsInsertedUntilUnseenMerge ==
    [][\A x \in Actors :
          /\ (khist'.n = khist.n + 1 /\ khist'.op.kind = "insert" /\ khist'.op.x = x)
               => latest_key(regs'[x]) = khist'.op.k
          /\ \A y \in Actors :
                ( /\ IsMergeStep(x, y)
                  /\ khist.ins[x] # NoKey
                  /\ latest_key(regs[x]) = khist.ins[x]
                  /\ LatestSeen(x, y) )
                => latest_key(regs'[x]) = khist.ins[x]]_vars

\* C19 witness: a registry that held two concurrent latest ids got a third
\* key inserted, then the registry of another actor, which holds a latest
\* id, was merged into it, and it still returns the inserted key.
C19_Witness ==
    /\ khist.op.kind = "merge"
    /\ khist.ins[khist.op.x] # NoKey
    /\ latest_key(regs[khist.op.x]) = khist.ins[khist.op.x]
    /\ Cardinality(OrswotVals(regs[khist.op.x].keys)) = 3
    /\ MVRegVals(regs[khist.op.x].latest_key_id) = {khist.ins[khist.op.x]}
    /\ khist.ins[khist.op.x] # SetMin(khist.used)
    /\ regs[khist.op.y].latest_key_id # {}
    /\ LatestSeen(khist.op.x, khist.op.y)

\* C20: in every registry reached by inserts and merges, every id read from
\* latest_key_id is the id of a key of the keys set.
C20_NoDanglingLatest ==
    \A a \in Actors :
        MVRegVals(regs[a].latest_key_id) \subseteq OrswotVals(regs[a].keys)

\* C20 witness: a registry made by merges holds two concurrent latest ids
\* and a third key that is no longer latest.
C20_Witness ==
    \E a \in Actors :
        /\ khist.op = [kind |-> "merge", x |-> a, y |-> khist.op.y, k |-> NoKey]
        /\ Cardinality(MVRegVals(regs[a].latest_key_id)) = 2
        /\ Cardinality(OrswotVals(regs[a].keys)) = 3
\* Host p holds a Core that open has returned.
Opened(p) == host[p].pc = "ready" \/ host[p].call # "open"

\* C12: once open has returned Ok, the Core's keys have a latest key in every
\* state, whatever remote meta it reads or stores afterwards.
C12_OpenedHasLatestKey ==
    \A p \in Procs : Opened(p) => latest_key(host[p].keys) # NoKey

\* An opened Core has read, after its open, the key another actor inserted
\* concurrently with its own: its register holds both ids.
C12_Witness ==
    \E p \in Procs :
       /\ host[p].pc = "ready"
       /\ ohist.reads > 0
       /\ Cardinality(MVRegVals(host[p].keys.latest_key_id)) = 2
       /\ latest_key(host[p].keys) # NoKey

\* Host p is in an open with create = false whose load_local_meta finds no
\* local meta.
OpensWithoutLocalMeta(p) ==
    /\ host[p].pc = "o_load"
    /\ ~host[p].create
    /\ localMeta[host[p].store] = NoLocalMeta

\* The step stores no local meta, writes or removes no remote blob, and
\* generates no actor id and no key.
NothingWritten ==
    /\ localMeta' = localMeta
    /\ metaFiles' = metaFiles
    /\ ohist'.stores = ohist.stores
    /\ ohist'.actors = ohist.actors
    /\ ohist'.keys = ohist.keys

\* C15: an open with create = false that finds no local meta fails, and
\* neither its first step nor its failing step stores a local meta, writes a
\* remote blob or generates a key.
C15_OpenWithoutCreateFails ==
    [][\A p \in Procs :
          /\ host[p].pc = "closed" /\ host'[p].pc # "closed" => NothingWritten
          /\ OpensWithoutLocalMeta(p) /\ host'[p] # host[p] =>
                /\ host'[p].pc = "failed"
                /\ NothingWritten]_vars

\* An open with create = false has failed at load_local_meta, on a local
\* storage that still has no local meta.
C15_Witness ==
    \E p \in Procs :
       /\ host[p].pc = "failed"
       /\ ~host[p].create
       /\ host[p].local_meta = "none"
       /\ localMeta[host[p].store] = NoLocalMeta

\* C16: the local meta of a local storage is stored at most once, and every
\* open of that storage that returns Ok reports the same actor id.
C16_LocalMetaWrittenOnce ==
    \A st \in Stores :
       /\ ohist.stores[st] <= 1
       /\ Cardinality(ohist.reported[st]) <= 1

\* The first version from n on of which the remote shows no op file of
\* actor a.
FirstMissing(a, n) ==
    CHOOSE v \in n .. cnt.apply :
       /\ ~OpFileExists(a, v)
       /\ \A w \in n .. (v - 1) : OpFileExists(a, w)

\* C13: a read_remote over a remote with a gap in an actor's op files
\* returns Ok, leaves next_op_versions[a] at the first missing version, and
\* has applied exactly the versions below it; a version beyond the gap is
\* applied only by a read that finds every version before it.
C13_ReadStopsAtFirstGap ==
    [][\A r \in Replicas, s \in Slots :
          tasks[r][s].pc = "ro_commit" /\ tasks'[r][s].pc = "idle" =>
             /\ last'.res = "ok"
             /\ \A a \in Replicas :
                   LET m == FirstMissing(a, data[r].next_op_versions[a])
                   IN /\ data'[r].next_op_versions[a] = m
                      /\ {d[2] : d \in {x \in data'[r].folded : x[1] = a}}
                            = 0 .. (m - 1)]_vars

\* The remote shows versions 0 and 2 of an actor's ops and not version 1; a
\* read_remote of another replica, called after version 2 was acknowledged,
\* has returned Ok with version 0 applied and next_op_versions[a] = 1.
C13_Witness ==
    \E r, a \in Replicas :
       /\ r # a
       /\ \E b \in data[r].seen : b.actor = a /\ b.version = 2
       /\ OpFileExists(a, 0) /\ ~OpFileExists(a, 1) /\ OpFileExists(a, 2)
       /\ last = [r |-> r, kind |-> "read", res |-> "ok", info |-> 0]
       /\ data[r].next_op_versions[a] = 1
       /\ FoldedVersions(r, a) = {0}

\* The op blobs of replica r that store_ops made durable in an apply_ops
\* that was dropped before its commit.
Dropped(r) ==
    {b \in opFiles \cup held :
        /\ b.actor = r
        /\ b \notin acked
        /\ \A s \in Slots : tasks[r][s].pc = "ap_commit" => tasks[r][s].blob # b}

\* C14: dropping apply_ops after store_ops leaves the replica record
\* unchanged and the apply-ops lock free; the read_remote of that replica
\* that finds the blob applies it once and advances next_op_versions[r] by
\* one; and once it is applied, store_ops of the replica's next apply_ops
\* succeeds, at a later version.
C14_DroppedApplyIsReadBack ==
    [][\A r \in Replicas, s \in Slots :
          /\ tasks[r][s].pc = "ap_commit" /\ tasks'[r][s].pc = "idle"
                /\ last'.res = "dropped" =>
                /\ data'[r] = data[r]
                /\ ~lock'[r]
          /\ tasks[r][s].pc = "ro_commit" /\ tasks'[r][s].pc = "idle" =>
                \A b \in Dropped(r) \cap opFiles :
                   b.version = data[r].next_op_versions[r] =>
                      /\ data'[r].next_op_versions[r] = b.version + 1
                      /\ <<r, b.version>> \in data'[r].folded \ data[r].folded
          /\ /\ tasks[r][s].pc = "ap_store" /\ tasks'[r][s] # tasks[r][s]
             /\ Dropped(r) # {}
             /\ \A b \in Dropped(r) : <<r, b.version>> \in data[r].folded
             => /\ tasks'[r][s].pc = "ap_commit"
                /\ \A b \in Dropped(r) : tasks'[r][s].blob.version > b.version]_vars

\* A replica has read back the blob of its dropped apply_ops and then
\* applied ops at the next version.
C14_Witness ==
    \E r \in Replicas :
       \E b \in Dropped(r) :
          /\ AllIdle
          /\ <<r, b.version>> \in data[r].folded
          /\ \E c \in acked : c.actor = r /\ c.version = b.version + 1
          /\ data[r].next_op_versions[r] = b.version + 2

\* Host p returns from a store_remote_meta that has stored its blob and
\* removed the names it drained, and no other replica has written or removed
\* a remote meta blob during the call.
StoreMetaReturns(p) ==
    /\ host[p].pc = "m_remove"
    /\ host'[p].pc = "ready"
    /\ p \notin ohist.disturbed

\* C21: when store_remote_meta returns Ok, undisturbed by other replicas,
\* read_remote_metas is exactly the
\* name of the stored blob, the blob store holds under that name the Core's
\* current RemoteMeta, and no name that was in read_remote_metas before the
\* call is left in the blob store.
C21_StoreMetaSwapsNames ==
    [][\A p \in Procs :
          StoreMetaReturns(p) =>
             LET h == host'[p]
                 new_name == MetaBlob(h.remote_meta)
             IN /\ h.read_remote_metas = {new_name}
                /\ new_name \in metaFiles'
                /\ \A n \in h.drained : n \notin metaFiles']_vars

\* Host p holds a Core whose local meta is set.
HasCore(p) == host[p].pc \notin {"closed", "failed", "o_load", "o_store_local"}

\* The content of the remote meta blob n is merged into the remote meta m:
\* merging it again changes nothing.
MetaMerged(m, n) == RemoteMetaMerge(m, n.meta) = m

\* The names read_remote_meta_ and store_remote_meta have put into the
\* read_remote_metas of host p: those in the set, and those the last
\* store_remote_meta drained from it.
MergedMetaNames(p) == host[p].read_remote_metas \cup host[p].drained

StateMerged(r, b) ==
    /\ ClockLeq(b.next_op_versions, data[r].next_op_versions)
    /\ b.folded \subseteq data[r].folded

\* C22 (for read_states): every name in read_states that names a blob of
\* the blob store names merged content.
C22_ReadStatesNameMergedBlobs ==
    \A r \in Replicas : \A b \in stateFiles :
        b.name \in data[r].read_states => StateMerged(r, b)

\* C22 (for read_states): read_remote_states puts the names of the blobs it
\* merges into read_states, compact puts the name of the blob it stored, and
\* a name leaves the set of a Core only when its blob is gone from the blob
\* store.
C22_ReadStatesKeepMergedNames ==
    [][\A r \in Replicas :
          /\ \A s \in Slots :
                /\ tasks[r][s].pc = "rs_commit" /\ tasks'[r][s].pc # "rs_commit" =>
                      {b.name : b \in tasks[r][s].loaded} \subseteq data'[r].read_states
                /\ tasks[r][s].pc = "c_remove" /\ tasks'[r][s].pc = "idle" =>
                      tasks[r][s].new_state_name \in data'[r].read_states
          /\ data'[r].opens = data[r].opens =>
                \A n \in data[r].read_states \ data'[r].read_states :
                   \A b \in stateFiles' : b.name # n]_vars

\* C23: store_ops on an (actor, version) that has an op file returns an
\* error and leaves the op files as they are; no (actor, version) ever has
\* two op files.
C23_StoreOpsRefusesOverwrite ==
    [][\A r \in Replicas, s \in Slots :
          /\ /\ tasks[r][s].pc = "ap_store"
             /\ tasks'[r][s] # tasks[r][s]
             /\ OpFileExists(tasks[r][s].blob.actor, tasks[r][s].blob.version)
             => /\ last' = [r |-> r, kind |-> "apply", res |-> "err_exists",
                            info |-> tasks[r][s].blob.version]
                /\ opFiles' = opFiles
          /\ \A b, c \in opFiles' :
                b.actor = c.actor /\ b.version = c.version => b = c]_vars

\* An apply_ops has returned the error of store_ops for a version at which
\* the op file of an earlier call is still stored, with the earlier content.
C23_Witness ==
    /\ last.kind = "apply"
    /\ last.res = "err_exists"
    /\ \E b \in opFiles :
          /\ b.actor = last.r
          /\ b.version = last.info
          /\ b.op.val < cnt.apply

(***************************************************************************)
(* C24: the framing round-trips.  serialize of a version and a payload is  *)
(* the 16 version bytes followed by the payload, and deserialize of it     *)
(* gives back that version and that payload; deserialize of a slice of     *)
(* fewer than 16 bytes is InvalidLength, and of any longer slice is Ok     *)
(* with the first 16 bytes as the version and the rest as the payload.     *)
(***************************************************************************)
C24_FramingRoundTrips ==
    /\ pure.op = "serialize" =>
          /\ pure.res = pure.buf.version \o pure.buf.content
          /\ deserialize(pure.res) = [ok |-> TRUE,
                                      version |-> pure.buf.version,
                                      content |-> pure.buf.content]
    /\ pure.op = "deserialize" =>
          IF Len(pure.arg) < VERSION_LEN
          THEN pure.res = [ok |-> FALSE, err |-> "InvalidLength"]
          ELSE /\ pure.res.ok
               /\ Len(pure.res.version) = VERSION_LEN
               /\ pure.res.version \o pure.res.content = pure.arg

\* A slice of exactly the 16 version bytes was deserialized and accepted.
C24_Witness ==
    /\ pure.op = "deserialize"
    /\ Len(pure.arg) = VERSION_LEN
    /\ pure.res.ok
    /\ pure.res.content = <<>>


(***************************************************************************)
(* C25: the version check is a membership test on a sorted list.  The list *)
(* a Core holds is the user's list in ascending order, and ensure_versions *)
(* of a version x against it is Ok exactly when x is one of the versions   *)
(* the user supplied, whatever order they were supplied in.                *)
(***************************************************************************)
Elems(s) == {s[i] : i \in 1..Len(s)}

IsSorted(s) == \A i \in 1..Len(s), j \in 1..Len(s) : i < j => s[i] <= s[j]

C25_EnsureVersionsIsMembership ==
    pure.op = "ensure_versions" => (pure.res <=> pure.arg \in Elems(pure.user))

\* A version was found in a list the user had supplied out of order.
C25_Witness ==
    /\ pure.op = "ensure_versions"
    /\ ~IsSorted(pure.user)
    /\ pure.res
    /\ pure.arg = pure.user[Len(pure.user)]


(***************************************************************************)
(* C26: the buffer yields the 16 version bytes and then the payload.       *)
(* After n bytes were consumed by advances that did not panic, remaining   *)
(* is 16 + len - n; while it is positive chunk is a non-empty run of the   *)
(* concatenation of version and payload that starts at byte n, and chunk   *)
(* is empty exactly when remaining is 0.                                   *)
(***************************************************************************)
C26_BufYieldsVersionThenPayload ==
    pure.op \in {"new", "advance", "chunks_vectored", "serialize", "deserialize"} =>
        LET all == pure.buf.version \o pure.buf.content
            n == pure.consumed
            c == chunk(pure.buf)
        IN /\ remaining(pure.buf) = VERSION_LEN + Len(pure.buf.content) - n
           /\ (c = <<>>) <=> (remaining(pure.buf) = 0)
           /\ remaining(pure.buf) > 0 =>
                 /\ n + Len(c) <= Len(all)
                 /\ c = SubSeq(all, n + 1, n + Len(c))

\* An advance that was not aligned to a chunk left the position inside the
\* payload, with bytes still to yield.
C26_Witness ==
    /\ pure.op = "advance"
    /\ pure.arg = VERSION_LEN + 1
    /\ pure.consumed = VERSION_LEN + 1
    /\ Len(chunk(pure.buf)) = 2


(***************************************************************************)
(* C27: chunks_vectored on a dst of d slots fills the first min(d, k)      *)
(* slots and returns that number, where k is 2 while the position is       *)
(* inside the version prefix, 1 inside the payload and 0 at the end.  The  *)
(* filled slots, one after the other, are the bytes not yet consumed (a    *)
(* prefix of them when d < k), and the slots after them are as the caller  *)
(* left them.                                                              *)
(***************************************************************************)
RECURSIVE Concat(_, _)
Concat(slots, n) == IF n = 0 THEN <<>> ELSE Concat(slots, n - 1) \o slots[n]

IsPrefix(s, t) == Len(s) <= Len(t) /\ s = SubSeq(t, 1, Len(s))

Min(a, b) == IF a <= b THEN a ELSE b

C27_ChunksVectoredFillsLeadingSlots ==
    pure.op = "chunks_vectored" =>
        LET all == pure.buf.version \o pure.buf.content
            rest == SubSeq(all, pure.consumed + 1, Len(all))
            d == Len(pure.arg)
            k == IF pure.consumed < VERSION_LEN THEN 2
                 ELSE IF pure.consumed < Len(all) THEN 1 ELSE 0
            filled == Concat(pure.res.dst, pure.res.n)
        IN /\ pure.res.n = Min(d, k)
           /\ Len(pure.res.dst) = d
           /\ IF d < k THEN IsPrefix(filled, rest) ELSE filled = rest
           /\ \A i \in (pure.res.n + 1)..d : pure.res.dst[i] = pure.arg[i]

\* Inside the version prefix of a blob with an empty payload, with three
\* slots: two are filled, the second with the empty payload, one is left.
C27_Witness ==
    /\ pure.op = "chunks_vectored"
    /\ pure.consumed > 0
    /\ pure.consumed < VERSION_LEN
    /\ pure.buf.content = <<>>
    /\ Len(pure.arg) = 3
    /\ pure.res.n = 2
    /\ pure.res.dst[2] = <<>>
    /\ pure.res.dst[3] = Filler(3)


(***************************************************************************)
(* C28: advance(cnt) panics exactly when cnt is more than remaining: never *)
(* for cnt = 0, not even at the end, and always when the position is asked *)
(* to pass 16 + len.  An advance that does not panic moves the position by *)
(* cnt, so the position never passes the end.                              *)
(***************************************************************************)
C28_AdvancePanicsOnlyPastEnd ==
    [][pure'.op = "advance" =>
          LET end == VERSION_LEN + Len(pure.buf.content)
              count == pure'.arg
          IN /\ pure'.panicked <=> (count > end - pure.consumed)
             /\ count = 0 => ~pure'.panicked
             /\ pure.buf.pos + count > end => pure'.panicked
             /\ pure'.buf.pos <= end
             /\ ~pure'.panicked => pure'.buf.pos = pure.buf.pos + count]_vars

\* At the end of a blob with a payload, an advance by 1 panicked.
C28_Witness ==
    /\ pure.op = "advance"
    /\ pure.buf.content # <<>>
    /\ pure.consumed = VERSION_LEN + Len(pure.buf.content)
    /\ pure.arg = 1
    /\ pure.panicked


(***************************************************************************)
(* C29: remote-meta writes are not lost when set_remote_meta_* calls       *)
(* overlap on one replica.  Once every such call has returned, the merge   *)
(* of the remote meta blobs in the store is the RemoteMeta the replica     *)
(* holds in memory.                                                        *)
(***************************************************************************)
StoredRemoteMeta ==
    MergeMetas(EmptyRemoteMeta, CHOOSE order \in Orders(metaFiles) : TRUE)

AllSetCallsReturned ==
    /\ host[RaceHost].pc = "ready"
    /\ ohist.sets > 0
    /\ \A s \in Slots : calls[s].pc = "idle"

C29_ConcurrentMetaWritesNotLost ==
    AllSetCallsReturned => StoredRemoteMeta = host[RaceHost].remote_meta

\* A setting the replica holds in memory is in no blob of the store, though
\* every call has returned.
C29_SettingLost ==
    /\ AllSetCallsReturned
    /\ \E field \in RaceFields :
          /\ host[RaceHost].remote_meta[field] # {}
          /\ StoredRemoteMeta[field] = {}


(***************************************************************************)
(* C30: an (actor, version) names at most one op blob content over the     *)
(* whole history of the remote.  Whenever an op blob is stored, no other   *)
(* replica has already counted its (actor, version) as folded in (version  *)
(* below that replica's next_op_versions[actor]) with another content, the *)
(* content being the op acknowledged at that (actor, version) before.      *)
(***************************************************************************)
SameDot(b, o) == b.actor = o.actor /\ b.version = o.version

CountedAsFolded(r, b) == data[r].next_op_versions[b.actor] > b.version

C30_OpNameHasOneContent ==
    [][\A b \in opFiles' \ opFiles :
          \A r \in Replicas \ {b.actor} :
              CountedAsFolded(r, b) =>
                  \A o \in acked : SameDot(b, o) => o.op = b.op]_vars

\* An op blob is on the remote under an (actor, version) at which an op of
\* another content was acknowledged, and which another replica has counted.
C30_SecondContentStored ==
    \E b \in opFiles, o \in acked :
        /\ SameDot(b, o)
        /\ o.op # b.op
        /\ \E r \in Replicas \ {b.actor} : CountedAsFolded(r, b)


(***************************************************************************)
(* C31: whenever read_remote decrypts an op or state blob, the key it uses *)
(* (the reader's latest key when it took its snapshot) is the key the blob *)
(* was encrypted with.                                                     *)
(***************************************************************************)
OpsToDecrypt(t) ==
    UNION {Elems(LoadRun(a, t.firsts[a])) : a \in DOMAIN t.firsts}

StatesToDecrypt(t) == {b \in stateFiles : b.name \in t.to_read}

C31_DecryptsWithTheEncryptionKey ==
    [][\A r \in Replicas, s \in Slots :
          LET t == tasks[r][s]
          IN /\ (t.pc = "ro_load" /\ tasks'[r][s] # t) =>
                    \A b \in OpsToDecrypt(t) : b.key = t.key
             /\ (t.pc = "rs_load" /\ tasks'[r][s] # t) =>
                    \A b \in StatesToDecrypt(t) : b.key = t.key]_vars


\* The registries are merged, every replica holds the same latest key, and a
\* blob on the remote was encrypted with another key.
C31_MergedRegistriesWrongKey ==
    /\ \A r, q \in Replicas : regs[r] = regs[q]
    /\ \E b \in opFiles : \A r \in Replicas : b.key # data[r].key


(***************************************************************************)
(* C32: read_remote does not fail because of a compact running on another *)
(* replica: no read_remote returns the error of a state blob that was      *)
(* listed and then removed before it was loaded.                           *)
(***************************************************************************)
C32_ReadSurvivesCompact ==
    ~(last.kind = "read" /\ last.res = "err_io")


\* The versions of actor a among the entries a read_remote_ops loaded.
LoadedVersions(t, a) == {e.version : e \in {x \in Elems(t.loaded) : x.actor = a}}

\* C33: in the commit step of read_remote_ops the call fails exactly when an
\* entry is above the counter of its actor; otherwise, per actor, the counter
\* advances by one for each loaded version at or above it, exactly those
\* versions are folded and none of them was folded before, and when every
\* loaded version is below the counters nothing changes.
C33_CommitStepByVersion ==
    [][\A r \in Replicas, s \in Slots :
          LET t == tasks[r][s]
              d == data[r]
              e == data'[r]
              Ok == \A x \in Elems(t.loaded) : x.version < e.next_op_versions[x.actor]
              Applied(a) == d.next_op_versions[a] .. (e.next_op_versions[a] - 1)
          IN (t.pc = "ro_commit" /\ tasks'[r][s] # t) =>
                /\ Ok <=> ~(tasks'[r][s].pc = "idle" /\ last'.res = "err_order")
                /\ \A a \in Actors :
                      /\ e.next_op_versions[a] >= d.next_op_versions[a]
                      /\ Applied(a) \subseteq LoadedVersions(t, a)
                      /\ \A v \in Applied(a) : <<a, v>> \notin d.folded
                      /\ Ok => Applied(a) =
                                 {v \in LoadedVersions(t, a) : v >= d.next_op_versions[a]}
                /\ e.folded = d.folded \cup
                                 UNION {{<<a, v>> : v \in Applied(a)} : a \in Actors}
                /\ (\A x \in Elems(t.loaded) : x.version < d.next_op_versions[x.actor])
                      => /\ e.state = d.state
                         /\ e.next_op_versions = d.next_op_versions
                         /\ e.folded = d.folded]_vars

\* One read_remote of replica r has returned Ok with the op of another actor
\* applied, and a second read_remote of r that loaded the same blob before
\* that commit stands at its own commit step with the blob among its entries.
C33_Witness ==
    \E r \in Replicas, s \in Slots :
       /\ tasks[r][s].pc = "ro_commit"
       /\ last = [r |-> r, kind |-> "read", res |-> "ok", info |-> 0]
       /\ \E x \in Elems(tasks[r][s].loaded) :
             /\ x.actor # r
             /\ <<x.actor, x.version>> \in data[r].folded
             /\ data[r].next_op_versions[x.actor] = x.version + 1


\* C34: with the blob store's load_ops, no read_remote_ops reaches its commit
\* step with an entry above the counter of its actor at that entry's turn,
\* and no read_remote or compact returns the "Unexpected op version" error.
C34_UnexpectedVersionUnreachable ==
    /\ last.res # "err_order"
    /\ \A r \in Replicas, s \in Slots :
          tasks[r][s].pc = "ro_commit" =>
             CommitEntries(data[r], tasks[r][s].loaded).ok

\* A read_remote of replica r has returned Ok with at least two versions of
\* another actor applied, while a state blob stored by a compact is on the
\* remote.
C34_Witness ==
    \E r \in Replicas :
       /\ last = [r |-> r, kind |-> "read", res |-> "ok", info |-> 0]
       /\ stateFiles # {}
       /\ \E a \in Replicas \ {r} : data[r].next_op_versions[a] >= 2


\* The task is a read_remote of replica r called when the call before it, on
\* any replica, was a read_remote of r: nothing changed the remote in between.
SecondRead(r, t) ==
    /\ t.pc \in {"rs_list", "rs_filter", "rs_load", "rs_commit",
                 "ro_list", "ro_snap", "ro_load", "ro_commit"}
    /\ t.c.kind = "read"
    /\ last.r = r /\ last.kind = "read"

\* C35: a read_remote that follows a read_remote of the same replica, with no
\* other call in between, loads no state blob, applies no op and leaves the
\* user state, next_op_versions and read_states as they were.
C35_SecondReadIsNoOp ==
    [][\A r \in Replicas, s \in Slots :
          LET t == tasks[r][s]
          IN (SecondRead(r, t) /\ tasks'[r][s] # t) =>
                /\ t.pc = "rs_load" => t.to_read = {}
                /\ data'[r].state = data[r].state
                /\ data'[r].folded = data[r].folded
                /\ data'[r].next_op_versions = data[r].next_op_versions
                /\ data'[r].read_states = data[r].read_states]_vars

\* The same for a read_remote that follows one that returned Ok.
C35_SecondReadAfterOkIsNoOp ==
    [][\A r \in Replicas, s \in Slots :
          LET t == tasks[r][s]
          IN (SecondRead(r, t) /\ last.res = "ok" /\ tasks'[r][s] # t) =>
                /\ t.pc = "rs_load" => t.to_read = {}
                /\ t.pc = "ro_commit" => t.loaded = <<>>
                /\ data'[r].state = data[r].state
                /\ data'[r].folded = data[r].folded
                /\ data'[r].next_op_versions = data[r].next_op_versions
                /\ data'[r].read_states = data[r].read_states
                /\ tasks'[r][s].pc = "idle" => last'.res = "ok"]_vars

\* A read_remote of a replica has failed on the state blob another replica's
\* compact stored; the replica's next read_remote is about to load the blob
\* again.
C35_StateBlobLoadedAgain ==
    \E r \in Replicas, s \in Slots :
       /\ SecondRead(r, tasks[r][s])
       /\ tasks[r][s].pc = "rs_load"
       /\ tasks[r][s].to_read # {}


\* C36: open generates and inserts a key exactly when the registry has no
\* latest key after read_remote_meta_: then a fresh key becomes the latest
\* and the remote meta goes to be stored; otherwise open returns with the
\* registry as it is, no key generated and no blob written.  An open called
\* after an open on the remote had completed finds a latest key, one that an
\* earlier open generated.
C36_KeyInsertedIffNoLatest ==
    [][\A p \in Procs :
          LET h == host[p]
              g == host'[p]
          IN (h.pc = "o_check" /\ g # h) =>
                /\ IF latest_key(h.keys) = NoKey
                   THEN /\ ohist'.keys # ohist.keys
                        /\ latest_key(g.keys) \in ohist'.keys \ ohist.keys
                        /\ g.pc = "m_store"
                   ELSE /\ ohist'.keys = ohist.keys
                        /\ g.keys = h.keys
                        /\ g.pc = "ready"
                        /\ metaFiles' = metaFiles
                /\ h.late => /\ latest_key(h.keys) \in ohist.keys
                             /\ ohist'.keys = ohist.keys
                             /\ metaFiles' = metaFiles]_vars

\* Both host processes are open, the second open was called after the first
\* had completed, and the two hold the one key that was generated.
C36_Witness ==
    \E p, q \in Procs :
       /\ p # q
       /\ host[p].pc = "ready" /\ host[q].pc = "ready"
       /\ host[p].late /\ ~host[q].late
       /\ Cardinality(ohist.keys) = 1
       /\ latest_key(host[p].keys) = latest_key(host[q].keys)
       /\ latest_key(host[p].keys) \in ohist.keys


\* The read_remote_meta_ of host record h, at its load step, gets every blob
\* it listed and each has a supported version.
MetaLoadSucceeds(h) ==
    /\ h.pc = "m_load"
    /\ h.tmp \subseteq metaFiles
    /\ \A b \in h.tmp : EnsureVersions(SUPPORTED_VERSIONS, b.outer)

\* C37 as stated: read_remote_meta_ calls set_remote_meta on the capabilities
\* exactly when it merged a blob or force_notify is set, each call carries
\* the capability's register of the merged RemoteMeta, and without a call
\* RemoteMeta and read_remote_metas are unchanged.
C37_NotifiesWithRegisters ==
    [][\A p \in Procs :
          LET h == host[p]
              g == host'[p]
              merged == h.tmp # {}
              force_notify == h.call = "open"
          IN (MetaLoadSucceeds(h) /\ g # h) =>
                /\ g.notified.called <=> (merged \/ force_notify)
                /\ g.notified.called =>
                      /\ g.notified.some
                      /\ g.notified.meta = g.remote_meta
                /\ ~g.notified.called =>
                      /\ g.remote_meta = h.remote_meta
                      /\ g.read_remote_metas = h.read_remote_metas]_vars

\* C37, amended: the calls carry Some(register) of the merged RemoteMeta when
\* a blob was merged, and the envelope merges its register into its own; they
\* carry None when nothing was merged and force_notify is set.
C37_NotifiesSomeOrNone ==
    [][\A p \in Procs :
          LET h == host[p]
              g == host'[p]
              merged == h.tmp # {}
              force_notify == h.call = "open"
          IN (MetaLoadSucceeds(h) /\ g # h) =>
                /\ g.notified.called <=> (merged \/ force_notify)
                /\ merged =>
                      /\ g.notified.some
                      /\ g.notified.meta = g.remote_meta
                      /\ g.handler = MVRegMerge(h.handler, g.remote_meta.key_cryptor)
                /\ (~merged /\ force_notify) =>
                      /\ ~g.notified.some
                      /\ g.handler = h.handler
                      /\ g.remote_meta = h.remote_meta
                /\ ~g.notified.called =>
                      /\ g.remote_meta = h.remote_meta
                      /\ g.read_remote_metas = h.read_remote_metas
                      /\ g.keys = h.keys
                      /\ g.handler = h.handler]_vars

\* One host process has opened on the empty remote, its capabilities called
\* with None; the other has merged the blob of the first and its
\* capabilities were called with the registers of the merged RemoteMeta.
C37_Witness ==
    \E p, q \in Procs :
       /\ host[p].pc = "ready" /\ host[q].pc = "ready"
       /\ host[p].notified.called /\ ~host[p].notified.some
       /\ host[q].notified.some
       /\ host[q].notified.meta = host[q].remote_meta
       /\ host[q].notified.meta # EmptyRemoteMeta

\* A read_remote_meta that found nothing new has returned without a call to
\* the capabilities.
C37_NoCallWitness ==
    \E p \in Procs :
       /\ host[p].pc = "ready"
       /\ ohist.reads = 1
       /\ host[p].read_remote_metas # {}
       /\ ~host[p].notified.called


\* C38: a set_remote_meta_* call whose merge changed nothing, so that the
\* serialized RemoteMeta is a blob already on the remote, does not fail at
\* its store step, and when it returns that blob is on the remote.
C38_SetMetaIsIdempotent ==
    [][\A p \in Procs :
          LET h == host[p]
              g == host'[p]
              blob == MetaBlob(h.remote_meta)
          IN (h.call = "set_meta" /\ g # h) =>
                /\ (h.pc = "m_store" /\ blob \in metaFiles) => g.pc = "m_remove"
                /\ (h.pc = "m_remove" /\ g.pc = "ready" /\ blob \in h.drained)
                      => blob \in metaFiles']_vars

\* A host process stands at the store step of a set_remote_meta_storage call
\* with a RemoteMeta whose blob is on the remote.
C38_StoreOfExistingBlob ==
    \E p \in Procs :
       /\ host[p].pc = "m_store"
       /\ host[p].call = "set_meta"
       /\ MetaBlob(host[p].remote_meta) \in metaFiles


\* C39: across every step that leaves a replica open, no counter of its
\* next_op_versions decreases and the op contents merged into its user state,
\* directly or with a state blob, only grow.
C39_CountersAndContentsOnlyGrow ==
    [][\A r \in Replicas :
          data'[r].opens = data[r].opens =>
             /\ \A a \in Actors :
                   data'[r].next_op_versions[a] >= data[r].next_op_versions[a]
             /\ data[r].folded \subseteq data'[r].folded]_vars

\* A read_remote of a replica has returned Ok with a state blob merged that
\* holds the op of another actor.
C39_Witness ==
    \E r \in Replicas :
       /\ last = [r |-> r, kind |-> "read", res |-> "ok", info |-> 0]
       /\ data[r].read_states # {}
       /\ \E a \in Replicas \ {r} :
             /\ data[r].next_op_versions[a] >= 1
             /\ <<a, 0>> \in data[r].folded


\* C40: the executor has completed with Ok only when no task is unfinished,
\* no spawned task waits in the channel and every TaskMgr handle is dropped.
C40_OkOnlyWhenClosedAndDone ==
    exec.out = "ok" =>
       /\ exec.senders = 0
       /\ exec.futs = {}
       /\ exec.rx = <<>>
       /\ exec.done = exec.spawned

\* The executor has completed with Err exactly when a task it polled to
\* completion returned Err, in the poll that completed the task.
C40_ErrWhenATaskFails ==
    [][( exec'.done # exec.done /\ \E t \in exec.futs \cup Received(exec.rx) :
                                      t.id \in exec'.done \ exec.done /\ t.res = "err" )
          <=> (exec.out = "pending" /\ exec'.out = "err")]_vars

\* The executor has completed with Ok while a TaskMgr handle exists, and a
\* task spawned since, for which spawn returned Ok, waits in the channel of
\* an executor that is not polled again.
C40_SpawnedTaskNeverPolled ==
    /\ exec.out = "ok"
    /\ exec.senders >= 1
    /\ ~exec.dropped
    /\ exec.rx # <<>>
    /\ exec.spawned \ exec.done # {}

====
